---- MODULE Spec2Model ----
(***************************************************************************)
(* Model of elf-size-analyze: the symbol tree (SymbolsTreeByPath), its     *)
(* passes (add, merge_paths, sort, accumulate_sizes, calculate_total_size),*)
(* the JSON/text flattening of the tree and the driver in __main__.py.     *)
(*                                                                         *)
(* Python strings are sequences of one-character strings, None for a size  *)
(* is NoneSize and None for a file name is NoneFile.  A node is a record   *)
(* and the heap of Node objects is the sequence `nodes`: a node reference  *)
(* is an index into it, 0 is the reference None, ROOT is tree_root and     *)
(* ORPHANS is self.orphans.  Nodes that merge_paths unlinks stay in the    *)
(* heap, as the objects do while a traversal still holds them.             *)
(***************************************************************************)
EXTENDS Integers, Sequences, FiniteSets, TLC

\* ------------------------------------------------------------------------
\* Bounds of the model
\* ------------------------------------------------------------------------
MaxSymbols == 2
MaxPasses == 2

\* ------------------------------------------------------------------------
\* Python values
\* ------------------------------------------------------------------------
NoneSize == -1
NoneFile == <<"None">>
NoNode == 0

\* characters in code point order, as str comparison orders them
Alphabet == <<".", "/", "?", "a", "b", "c", "x", "y", "z">>

Ord(c) == CHOOSE i \in 1..Len(Alphabet) : Alphabet[i] = c

RECURSIVE StrLess(_, _)
StrLess(s, t) ==
    IF t = <<>> THEN FALSE
    ELSE IF s = <<>> THEN TRUE
    ELSE IF Ord(Head(s)) # Ord(Head(t)) THEN Ord(Head(s)) < Ord(Head(t))
    ELSE StrLess(Tail(s), Tail(t))

Min(a, b) == IF a < b THEN a ELSE b
Max(a, b) == IF a > b THEN a ELSE b

\* the Python slice s[lo:hi] for 0 <= lo, with hi clamped to the length and
\* a negative hi counted from the end
Slice(s, lo, hi) ==
    LET h == IF hi < 0 THEN Max(Len(s) + hi, 0) ELSE Min(hi, Len(s))
    IN  [i \in 1..Max(h - lo, 0) |-> s[lo + i]]

RECURSIVE SumSeq(_)
SumSeq(s) == IF s = <<>> THEN 0 ELSE Head(s) + SumSeq(Tail(s))

RECURSIVE SelectIdx(_, _, _)
\* the elements of s that satisfy Test, in order (filter)
SelectIdx(s, Test(_), i) ==
    IF i > Len(s) THEN <<>>
    ELSE (IF Test(s[i]) THEN <<s[i]>> ELSE <<>>) \o SelectIdx(s, Test, i + 1)

Filter(s, Test(_)) == SelectIdx(s, Test, 1)

\* list.remove(x): drops the first occurrence of x
RemoveFirst(s, x) ==
    LET i == CHOOSE k \in 1..Len(s) : s[k] = x /\ \A j \in 1..(k - 1) : s[j] # x
    IN  Slice(s, 0, i - 1) \o Slice(s, i, Len(s))

InSeq(s, x) == \E k \in 1..Len(s) : s[k] = x

\* ------------------------------------------------------------------------
\* os.path and pathlib on POSIX
\* ------------------------------------------------------------------------
RECURSIVE LastSlash(_, _)
\* str.rfind('/') counted from 1, 0 when there is no slash
LastSlash(p, i) ==
    IF i = 0 THEN 0 ELSE IF p[i] = "/" THEN i ELSE LastSlash(p, i - 1)

RECURSIVE RStripSlash(_)
RStripSlash(p) ==
    IF p # <<>> /\ p[Len(p)] = "/" THEN RStripSlash(Slice(p, 0, Len(p) - 1))
    ELSE p

AllSlashes(p) == \A k \in 1..Len(p) : p[k] = "/"

\* os.path.split: <<head, tail>>
PathSplit(p) ==
    LET i == LastSlash(p, Len(p))
        head == Slice(p, 0, i)
        tail == Slice(p, i, Len(p))
    IN  <<IF head # <<>> /\ ~AllSlashes(head) THEN RStripSlash(head) ELSE head,
          tail>>

\* os.path.join of two components
PathJoin(a, b) ==
    IF b # <<>> /\ b[1] = "/" THEN b
    ELSE IF a = <<>> \/ a[Len(a)] = "/" THEN a \o b
    ELSE a \o <<"/">> \o b

RECURSIVE SplitSlash(_, _)
\* str.split('/') with the current component carried in cur
SplitSlash(p, cur) ==
    IF p = <<>> THEN <<cur>>
    ELSE IF Head(p) = "/" THEN <<cur>> \o SplitSlash(Tail(p), <<>>)
    ELSE SplitSlash(Tail(p), Append(cur, Head(p)))

RECURSIVE LStripSlash(_)
LStripSlash(p) ==
    IF p # <<>> /\ p[1] = "/" THEN LStripSlash(Tail(p)) ELSE p

LeadingSlashes(p) == Len(p) - Len(LStripSlash(p))

IsRealPart(c) == c # <<>> /\ c # <<".">>

\* pathlib.Path(file).parts: the root, then the components that are
\* neither empty nor '.'
PathParts(file) ==
    LET n == LeadingSlashes(file)
        root == IF n = 0 THEN <<>>
                ELSE IF n = 2 THEN << <<"/", "/">> >>
                ELSE << <<"/">> >>
        rest == LStripSlash(file)
    IN  root \o (IF rest = <<>> THEN <<>> ELSE Filter(SplitSlash(rest, <<>>), IsRealPart))

\* ------------------------------------------------------------------------
\* Symbol and Node
\* ------------------------------------------------------------------------
Symbol(name, size, file, section) ==
    [name |-> name, size |-> size, file |-> file, section |-> section]

NoSymbol == Symbol(<<>>, 0, NoneFile, 0)

DataNone == [type |-> "None", str |-> <<>>, symbol |-> NoSymbol]
DataStr(s) == [type |-> "str", str |-> s, symbol |-> NoSymbol]
DataSymbol(sym) == [type |-> "Symbol", str |-> <<>>, symbol |-> sym]

\* Node(data, is_dir): parent None, no children, cumulative_size None
Node(data, is_dir) ==
    [data |-> data, is_dir |-> is_dir, cumulative_size |-> NoneSize,
     parent |-> NoNode, children |-> <<>>]

is_symbol(nd) == nd.data.type = "Symbol"
is_root(nd) == nd.data.type = "None"
is_path(nd) == ~is_root(nd) /\ ~is_symbol(nd)
is_dir(nd) == is_path(nd) /\ nd.is_dir
is_file(nd) == is_path(nd) /\ ~nd.is_dir

ROOT == 1
ORPHANS == 2

\* TreeNode.add that forgets the cumulative size of the child it takes
TreeAddClearsSize(t, p, c) ==
    [t EXCEPT ![p].children = Append(@, c), ![c].parent = p, ![c].cumulative_size = NoneSize]

\* TreeNode.add(child) for one child: append and set the parent
TreeAdd(t, p, c) ==
    [t EXCEPT ![p].children = Append(@, c), ![c].parent = p]

\* allocate a new Node object and add it under p
NewChild(t, p, nd) == TreeAdd(Append(t, nd), p, Len(t) + 1)

\* SymbolsTreeByPath.__init__ before the symbols are added
EmptyTree == TreeAdd(<<Node(DataNone, FALSE), Node(DataStr(<<"?">>), FALSE)>>, ROOT, ORPHANS)

\* ------------------------------------------------------------------------
\* Traversals (TreeNode.pre_order, TreeNode.post_order)
\* ------------------------------------------------------------------------
RECURSIVE PreOrderFrom(_, _, _)
\* the <<node, depth>> pairs that pre_order yields on a tree that is not
\* changed during the traversal; todo is the list of pending pairs
PreOrderFrom(t, todo, fuel) ==
    IF todo = <<>> \/ fuel = 0 THEN <<>>
    ELSE LET n == Head(todo)[1]
             d == Head(todo)[2]
             kids == [i \in 1..Len(t[n].children) |-> <<t[n].children[i], d + 1>>]
         IN  <<Head(todo)>> \o PreOrderFrom(t, kids \o Tail(todo), fuel - 1)

PreOrder(t, n) == PreOrderFrom(t, << <<n, 0>> >>, Len(t))

RECURSIVE PostOrderOfParentFirst(_, _, _, _)
\* the post-order iterator that yields its root before the nodes below it
PostOrderOfParentFirst(t, n, d, fuel) ==
    IF fuel = 0 THEN <<>>
    ELSE LET RECURSIVE Kids(_)
             Kids(i) == IF i > Len(t[n].children) THEN <<>>
                        ELSE PostOrderOfParentFirst(t, t[n].children[i], d + 1, fuel - 1)
                                 \o Kids(i + 1)
         IN  << <<n, d>> >> \o Kids(1)

RECURSIVE PostOrderOf(_, _, _, _)
PostOrderOf(t, n, d, fuel) ==
    IF fuel = 0 THEN <<>>
    ELSE LET RECURSIVE Kids(_)
             Kids(i) == IF i > Len(t[n].children) THEN <<>>
                        ELSE PostOrderOf(t, t[n].children[i], d + 1, fuel - 1) \o Kids(i + 1)
         IN  Kids(1) \o << <<n, d>> >>

PostOrder(t, n) == PostOrderOf(t, n, 0, Len(t))

Nodes(pairs) == [i \in 1..Len(pairs) |-> pairs[i][1]]

Reachable(t) == {PreOrder(t, ROOT)[i][1] : i \in 1..Len(PreOrder(t, ROOT))}

\* ------------------------------------------------------------------------
\* SymbolsTreeByPath.add / _add_symbol_with_path
\* ------------------------------------------------------------------------
\* the path children of node whose data is part, in child order
PathChildNamed(t, node, part) ==
    LET IsIt(c) == is_path(t[c]) /\ t[c].data.str = part
    IN  Filter(t[node].children, IsIt)

RECURSIVE DescendPartsMarksDirs(_, _, _)
\* the loop over path.parts that marks every part it goes into as a directory
DescendPartsMarksDirs(t, node, parts) ==
    IF parts = <<>> THEN <<t, node, "">>
    ELSE LET path_child == PathChildNamed(t, node, Head(parts))
         IN  IF Len(path_child) > 1 THEN <<t, node, "AssertionError">>
             ELSE IF Len(path_child) = 0
                  THEN DescendPartsMarksDirs(NewChild(t, node, Node(DataStr(Head(parts)), TRUE)),
                                             Len(t) + 1, Tail(parts))
                  ELSE DescendPartsMarksDirs([t EXCEPT ![path_child[1]].is_dir = TRUE],
                                             path_child[1], Tail(parts))

RECURSIVE DescendParts(_, _, _)
\* the loop over path.parts: <<tree, node reached, error>>
DescendParts(t, node, parts) ==
    IF parts = <<>> THEN <<t, node, "">>
    ELSE LET path_child == PathChildNamed(t, node, Head(parts))
         IN  IF Len(path_child) > 1 THEN <<t, node, "AssertionError">>
             ELSE IF Len(path_child) = 0
                  THEN DescendParts(NewChild(t, node, Node(DataStr(Head(parts)), TRUE)),
                                    Len(t) + 1, Tail(parts))
                  ELSE DescendParts(t, path_child[1], Tail(parts))

\* <<tree, error>>
AddSymbolWithPath(t, symbol) ==
    LET r == DescendParts(t, ROOT, PathParts(symbol.file))
    IN  IF r[3] # "" THEN <<r[1], r[3]>>
        ELSE <<NewChild([r[1] EXCEPT ![r[2]].is_dir = FALSE], r[2],
                        Node(DataSymbol(symbol), FALSE)), "">>

\* <<tree, error>>
AddSymbol(t, symbol) ==
    IF symbol.file = NoneFile
    THEN <<NewChild(t, ORPHANS, Node(DataSymbol(symbol), FALSE)), "">>
    ELSE AddSymbolWithPath(t, symbol)

\* ------------------------------------------------------------------------
\* SymbolsTreeByPath.merge_paths
\* ------------------------------------------------------------------------
\* MergedName that leaves the child's name as it is
MergedNameOfChild(this_data, child_data, fish_like) == child_data

\* MergedName that joins the whole names also when fish_like is set
MergedNamePlain(this_data, child_data, fish_like) == PathJoin(this_data, child_data)

\* the name the only child gets: this node's path joined with the child's
MergedName(this_data, child_data, fish_like) ==
    LET sp == PathSplit(this_data)
        this_path == IF fish_like THEN PathJoin(sp[1], Slice(sp[2], 0, 1))
                     ELSE this_data
    IN  PathJoin(this_path, child_data)

\* MergeNode without node.parent.add(child): the child is renamed and its
\* parent unlinked, but the child is not handed to the grandparent
MergeNodeDropsChild(t, n, fish_like) ==
    IF is_path(t[n]) /\ Len(t[n].children) = 1 /\ is_path(t[t[n].children[1]])
    THEN LET child == t[n].children[1]
             p == t[n].parent
         IN  <<[t EXCEPT ![child].data =
                     DataStr(MergedName(t[n].data.str, t[child].data.str, fish_like)),
                  ![p].children = RemoveFirst(@, n)], "">>
    ELSE <<t, "">>

\* the body of the loop that leaves the node in the child list of its
\* parent when it moves the child up
MergeNodeKeepsNode(t, n, fish_like) ==
    IF is_path(t[n]) /\ Len(t[n].children) = 1 /\ is_path(t[t[n].children[1]])
    THEN LET child == t[n].children[1]
             p == t[n].parent
         IN  <<[t EXCEPT ![child].data =
                     DataStr(MergedName(t[n].data.str, t[child].data.str, fish_like)),
                  ![p].children = Append(@, child)], "">>
    ELSE <<t, "">>

\* the body of the loop for one yielded node: <<tree, error>>
MergeNode(t, n, fish_like) ==
    IF is_path(t[n]) /\ Len(t[n].children) = 1
    THEN LET child == t[n].children[1]
             p == t[n].parent
         IN  IF is_path(t[child])
             THEN IF ~InSeq(t[p].children, n) THEN <<t, "ValueError">>
                  ELSE LET t1 == [t EXCEPT ![child].data =
                                     DataStr(MergedName(t[n].data.str, t[child].data.str, fish_like))]
                           t2 == [t1 EXCEPT ![p].children = RemoveFirst(@, n)]
                       IN  <<TreeAdd(t2, p, child), "">>
             ELSE <<t, "">>
    ELSE <<t, "">>

\* ChildrenSnapshot of a traversal that does not descend below a node that
\* the loop body has just unlinked from its parent
ChildrenSnapshotOfLinked(t, n) ==
    IF t[n].parent # NoNode /\ ~InSeq(t[t[n].parent].children, n) THEN <<>>
    ELSE t[n].children

\* the children PreOrderIterator goes on with once node n has been yielded
\* and the loop body has run: chain(*children_iters) takes the whole child
\* list of n at that moment
ChildrenSnapshot(t, n) == t[n].children

RECURSIVE MergeWalk(_, _, _, _)
\* the pre_order loop of merge_paths over the tree it is changing; todo is
\* the list of nodes the nested iterators still hold: <<tree, error>>
MergeWalk(t, todo, fish_like, fuel) ==
    IF todo = <<>> \/ fuel = 0 THEN <<t, "">>
    ELSE LET r == MergeNode(t, Head(todo), fish_like)
         IN  IF r[2] # "" THEN r
             ELSE MergeWalk(r[1], ChildrenSnapshot(r[1], Head(todo)) \o Tail(todo),
                            fish_like, fuel - 1)

MergePaths(t, fish_like) == MergeWalk(t, <<ROOT>>, fish_like, 2 * Len(t))

\* ------------------------------------------------------------------------
\* SymbolsTreeByPath.accumulate_sizes
\* ------------------------------------------------------------------------
\* ResetSizes that leaves the sizes of the earlier passes where they are
ResetSizesKeeps(t, ns) == t

RECURSIVE ResetSizes(_, _)
ResetSizes(t, ns) ==
    IF ns = <<>> THEN t
    ELSE ResetSizes([t EXCEPT ![Head(ns)].cumulative_size = NoneSize], Tail(ns))

\* AccumulateNode with = in the place of +=: the parent takes the size of
\* the child it saw last
AccumulateNodeAssigns(t, n) ==
    LET p == t[n].parent
    IN  IF p = NoNode THEN <<t, "">>
        ELSE LET t2 == IF is_symbol(t[n])
                       THEN [t EXCEPT ![n].cumulative_size = t[n].data.symbol.size]
                       ELSE t
             IN  IF t2[n].cumulative_size = NoneSize THEN <<t2, "TypeError">>
                 ELSE <<[t2 EXCEPT ![p].cumulative_size = t2[n].cumulative_size], "">>

\* the body of the post_order loop for one node: <<tree, error>>
AccumulateNode(t, n) ==
    LET p == t[n].parent
    IN  IF p = NoNode THEN <<t, "">>
        ELSE LET t1 == IF t[p].cumulative_size = NoneSize
                       THEN [t EXCEPT ![p].cumulative_size = 0] ELSE t
                 t2 == IF is_symbol(t1[n])
                       THEN [t1 EXCEPT ![n].cumulative_size = t1[n].data.symbol.size]
                       ELSE t1
             IN  IF t2[n].cumulative_size = NoneSize THEN <<t2, "TypeError">>
                 ELSE <<[t2 EXCEPT ![p].cumulative_size = @ + t2[n].cumulative_size], "">>

RECURSIVE AccumulateWalk(_, _)
AccumulateWalk(t, ns) ==
    IF ns = <<>> THEN <<t, "">>
    ELSE LET r == AccumulateNode(t, Head(ns))
         IN  IF r[2] # "" THEN r ELSE AccumulateWalk(r[1], Tail(ns))

\* <<tree, error>>
AccumulateSizes(t, reset) ==
    LET t1 == IF reset
              THEN [ResetSizes(t, Nodes(PreOrder(t, ROOT))) EXCEPT ![ORPHANS].cumulative_size = 0]
              ELSE t
    IN  AccumulateWalk(t1, Nodes(PostOrder(t1, ROOT)))

\* ------------------------------------------------------------------------
\* SymbolsTreeByPath.calculate_total_size
\* ------------------------------------------------------------------------
CalculateTotalSize(t) ==
    LET IsSym(n) == is_symbol(t[n])
        all_symbols == Filter(Nodes(PreOrder(t, ROOT)), IsSym)
    IN  SumSeq([i \in 1..Len(all_symbols) |-> t[all_symbols[i]].data.symbol.size])

\* ------------------------------------------------------------------------
\* SymbolsTreeByPath.sort
\* ------------------------------------------------------------------------
RECURSIVE InsertBeforeEqual(_, _, _)
\* x placed before the first element that is not less than it
InsertBeforeEqual(done, x, less) ==
    IF done = <<>> THEN <<x>>
    ELSE IF ~less[Head(done), x] THEN <<x>> \o done
    ELSE <<Head(done)>> \o InsertBeforeEqual(Tail(done), x, less)

RECURSIVE InsertBefore(_, _, _)
\* x placed before the first element it is strictly less than
InsertBefore(done, x, less) ==
    IF done = <<>> THEN <<x>>
    ELSE IF less[x, Head(done)] THEN <<x>> \o done
    ELSE <<Head(done)>> \o InsertBefore(Tail(done), x, less)

RECURSIVE SortedFrom(_, _, _)
SortedFrom(done, rest, less) ==
    IF rest = <<>> THEN done
    ELSE SortedFrom(InsertBefore(done, Head(rest), less), Tail(rest), less)

\* sorted(): a stable sort, equal elements keep their order; less[a, b] is
\* the comparison of the keys of a and b
Sorted(s, less) == SortedFrom(<<>>, s, less)

\* PathKeyLess that compares the names also when the sizes are set
PathKeyLessByName(t, a, b) == StrLess(t[a].data.str, t[b].data.str)

\* path_key compares -cumulative_size when it is set and the name otherwise
PathKeyLess(t, a, b) ==
    IF t[a].cumulative_size # NoneSize
    THEN (0 - t[a].cumulative_size) < (0 - t[b].cumulative_size)
    ELSE StrLess(t[a].data.str, t[b].data.str)

\* sorted() raises TypeError when it has to compare an int with a str
PathKeysMixed(t, s) ==
    \E i, j \in 1..Len(s) :
        t[s[i]].cumulative_size = NoneSize /\ t[s[j]].cumulative_size # NoneSize

\* the callers' key functions: symbol.name and symbol.size
SymbolKeys == {"name", "size"}

SymbolKeyLess(t, a, b, key, reverse) ==
    LET x == IF reverse THEN b ELSE a
        y == IF reverse THEN a ELSE b
    IN  IF key = "name"
        THEN StrLess(t[x].data.symbol.name, t[y].data.symbol.name)
        ELSE t[x].data.symbol.size < t[y].data.symbol.size

\* SortedChildren with the files put before the directories
SortedChildrenFilesFirst(t, n, key, reverse) ==
    LET IsSymbol(c) == is_symbol(t[c])
        IsDir(c) == is_dir(t[c])
        IsFile(c) == is_file(t[c])
        kids == {t[n].children[i] : i \in 1..Len(t[n].children)}
        PLess == [a \in kids, b \in kids |-> PathKeyLess(t, a, b)]
        SLess == [a \in kids, b \in kids |-> SymbolKeyLess(t, a, b, key, reverse)]
        dirs == Filter(t[n].children, IsDir)
        files == Filter(t[n].children, IsFile)
    IN  IF PathKeysMixed(t, dirs) \/ PathKeysMixed(t, files)
        THEN <<t[n].children, "TypeError">>
        ELSE <<Sorted(files, PLess) \o Sorted(dirs, PLess)
                 \o Sorted(Filter(t[n].children, IsSymbol), SLess), "">>

\* the new child list of one node: <<children, error>>
SortedChildren(t, n, key, reverse) ==
    LET IsSymbol(c) == is_symbol(t[c])
        NotSymbol(c) == ~is_symbol(t[c])
        IsDir(c) == is_dir(t[c])
        IsFile(c) == is_file(t[c])
        IsOther(c) == ~is_file(t[c]) /\ ~is_dir(t[c])
        kids == {t[n].children[i] : i \in 1..Len(t[n].children)}
        PLess == [a \in kids, b \in kids |-> PathKeyLess(t, a, b)]
        SLess == [a \in kids, b \in kids |-> SymbolKeyLess(t, a, b, key, reverse)]
        symbols == Filter(t[n].children, IsSymbol)
        non_symbols == Filter(t[n].children, NotSymbol)
        dirs == Filter(non_symbols, IsDir)
        files == Filter(non_symbols, IsFile)
        others == Filter(non_symbols, IsOther)
    IN  IF PathKeysMixed(t, dirs) \/ PathKeysMixed(t, files)
        THEN <<t[n].children, "TypeError">>
        ELSE <<Sorted(dirs, PLess) \o Sorted(files, PLess) \o others
                 \o Sorted(symbols, SLess), "">>

RECURSIVE SortNodes(_, _, _, _)
\* the loop over nodes_with_children: <<tree, error>>
SortNodes(t, ns, key, reverse) ==
    IF ns = <<>> THEN <<t, "">>
    ELSE LET r == SortedChildren(t, Head(ns), key, reverse)
         IN  IF r[2] # "" THEN <<t, r[2]>>
             ELSE SortNodes([t EXCEPT ![Head(ns)].children = r[1]], Tail(ns), key, reverse)

\* <<tree, error>>
SortTree(t, key, reverse) ==
    LET Many(n) == Len(t[n].children) > 1
    IN  SortNodes(t, Filter(Nodes(PreOrder(t, ROOT)), Many), key, reverse)

\* ------------------------------------------------------------------------
\* SymbolsTreeByPath._generate_protolines and _generate_node_dict
\* ------------------------------------------------------------------------
\* math.inf, the min_size of the files-only mode
MathInf == -1

\* node.data.size < min_size
BelowMinSize(size, min_size) == min_size = MathInf \/ size < min_size

\* the nodes the two generators keep: all but the root and the symbols
\* smaller than min_size
Retained(t, n, min_size) ==
    ~is_root(t[n]) /\ ~(is_symbol(t[n]) /\ BelowMinSize(t[n].data.symbol.size, min_size))

\* Protoline(depth, node) for every retained node, depth counted without the root
GenerateProtolines(t, min_size) ==
    LET Keep(pair) == Retained(t, pair[1], min_size)
        kept == Filter(PreOrder(t, ROOT), Keep)
    IN  [i \in 1..Len(kept) |-> [depth |-> kept[i][2] - 1, node |-> kept[i][1]]] \o <<>>

get_key(nd) == IF is_symbol(nd) THEN nd.data.symbol.name ELSE nd.data.str

RECURSIVE NodePath(_, _, _)
\* the nodes from below the root down to n, following the parent references
NodePath(t, n, fuel) ==
    IF t[n].parent = NoNode \/ fuel = 0 THEN <<>>
    ELSE Append(NodePath(t, t[n].parent, fuel - 1), n)

\* a dict is the sequence of its entries in insertion order; an entry is
\* [key, name, cumulative_size, has_children, children]
DictIndex(d, key) ==
    IF \E i \in 1..Len(d) : d[i].key = key
    THEN CHOOSE i \in 1..Len(d) : d[i].key = key
    ELSE 0

\* d[key] = entry: a new key goes last, an existing key keeps its place
DictSet(d, key, entry) ==
    IF DictIndex(d, key) = 0 THEN Append(d, entry)
    ELSE [d EXCEPT ![DictIndex(d, key)] = entry]

RECURSIVE DictSetAt(_, _, _)
\* children = children[k]['children'] for every k of keys, then
\* children[entry.key] = entry: <<dict, error>>
DictSetAt(d, keys, entry) ==
    IF keys = <<>> THEN <<DictSet(d, entry.key, entry), "">>
    ELSE LET i == DictIndex(d, Head(keys))
         IN  IF i = 0 \/ ~d[i].has_children THEN <<d, "KeyError">>
             ELSE LET r == DictSetAt(d[i].children, Tail(keys), entry)
                  IN  <<[d EXCEPT ![i].children = r[1]], r[2]>>

NodeEntry(t, n) ==
    [key |-> get_key(t[n]), name |-> get_key(t[n]),
     cumulative_size |-> t[n].cumulative_size,
     has_children |-> ~is_symbol(t[n]), children |-> <<>>]

RECURSIVE NodeDictWalk(_, _, _, _)
\* the pre_order loop of _generate_node_dict: <<dict, error>>
NodeDictWalk(t, ns, d, min_size) ==
    IF ns = <<>> THEN <<d, "">>
    ELSE LET n == Head(ns)
         IN  IF ~Retained(t, n, min_size) THEN NodeDictWalk(t, Tail(ns), d, min_size)
             ELSE LET nodePath == NodePath(t, n, Len(t))
                      keys == [i \in 1..(Len(nodePath) - 1) |-> get_key(t[nodePath[i]])]
                      r == DictSetAt(d, keys, NodeEntry(t, n))
                  IN  IF r[2] # "" THEN r
                      ELSE NodeDictWalk(t, Tail(ns), r[1], min_size)

GenerateNodeDict(t, min_size) ==
    NodeDictWalk(t, Nodes(PreOrder(t, ROOT)), <<>>, min_size)

\* ------------------------------------------------------------------------
\* str(), the % and {} string formatting, sizeof_fmt
\* ------------------------------------------------------------------------
Digits == <<"0", "1", "2", "3", "4", "5", "6", "7", "8", "9">>

RECURSIVE IntToStr(_)
\* str(n) for an int n
IntToStr(n) ==
    IF n < 0 THEN <<"-">> \o IntToStr(0 - n)
    ELSE IF n < 10 THEN <<Digits[n + 1]>>
    ELSE Append(IntToStr(n \div 10), Digits[(n % 10) + 1])

\* c * n
Repeat(c, n) == [i \in 1..Max(n, 0) |-> c] \o <<>>

\* '{:w}' and '%-ws' of a string: padded on the right up to width w
LJust(s, w) == s \o Repeat(" ", w - Len(s))

\* '{:>w}' of a string: padded on the left up to width w
RJust(s, w) == Repeat(" ", w - Len(s)) \o s

RECURSIVE Pow1024(_)
Pow1024(k) == IF k = 0 THEN 1 ELSE 1024 * Pow1024(k - 1)

\* the quotient a / b rounded to the nearest integer, a tie to the even one
\* (a, b integers, a >= 0, b > 0)
RoundHalfEven(a, b) ==
    LET q == a \div b
        r == a % b
    IN  IF 2 * r < b THEN q
        ELSE IF 2 * r > b THEN q + 1
        ELSE IF q % 2 = 0 THEN q ELSE q + 1

\* '%.<places>f' % (a / b * 100): scaled is the quotient in units of the last
\* decimal place
FixedStr(scaled, places) ==
    LET unit == IF places = 1 THEN 10 ELSE 100
        frac == IntToStr(scaled % unit)
    IN  IntToStr(scaled \div unit) \o <<".">> \o Repeat("0", places - Len(frac)) \o frac

\* A float that is an int below 2^21 times a power of 1024, kept as the
\* pair of the int m and the exponent e: its value is m * 1024^e, and the
\* divisions by 1024.0 are exact.
Float(m, e) == [m |-> m, e |-> e]

\* abs(num) < 1024.0, where even <= is taken for <
NotAboveKibi(num) ==
    \/ num.m = 0
    \/ num.e <= 0 /\ (num.e <= -2 \/ num.m <= Pow1024(1 - num.e))

\* abs(num) < 1024.0
BelowKibi(num) ==
    \/ num.m = 0
    \/ num.e <= 0 /\ (num.e <= -2 \/ num.m < Pow1024(1 - num.e))

\* num /= 1024.0
DivKibi(num) == Float(num.m, num.e - 1)

\* "%3.1f" % num
FormatF1(num) ==
    LET tenths == IF num.e >= 0 THEN num.m * Pow1024(num.e) * 10
                  ELSE RoundHalfEven(num.m * 10, Pow1024(0 - num.e))
    IN  RJust(FixedStr(tenths, 1), 3)

Units == <<<<>>, <<"K", "i">>, <<"M", "i">>, <<"G", "i">>, <<"T", "i">>, <<"P", "i">>,
           <<"E", "i">>, <<"Z", "i">>>>

\* "%3.1f %-3s" % (num, suffix_str) with suffix_str = unit + 'B'
FormatSize(num, unit) == FormatF1(num) \o <<" ">> \o LJust(unit \o <<"B">>, 3)

RECURSIVE SizeofFmtFrom(_, _)
\* the loop of sizeof_fmt from the unit of index i on
SizeofFmtFrom(num, i) ==
    IF i > Len(Units) THEN FormatSize(num, <<"Y", "i">>)
    ELSE IF BelowKibi(num) THEN FormatSize(num, Units[i])
    ELSE SizeofFmtFrom(DivKibi(num), i + 1)

sizeof_fmt(num) == SizeofFmtFrom(num, 1)

\* _size_string
SizeString(size, human_readable) ==
    IF human_readable THEN sizeof_fmt(Float(size, 0)) ELSE IntToStr(size)

\* ------------------------------------------------------------------------
\* SymbolsTreeByPath.generate_printable_lines
\* ------------------------------------------------------------------------
\* the keyword arguments of generate_printable_lines; header <<>> is None,
\* indent is left at its default
PrintArgs(max_width, min_size, header, colors, alternating_colors, trim, human_readable) ==
    [max_width |-> max_width, min_size |-> min_size, header |-> header, indent |-> 2,
     colors |-> colors, alternating_colors |-> alternating_colors, trim |-> trim,
     human_readable |-> human_readable]

\* '%.2f' % (size / total * 100)
PercentStr(size, total) == FixedStr(RoundHalfEven(size * 10000, total), 2)

\* _add_field_strings for one line: the three fields of the line
FieldStrings(t, total, line, a) ==
    LET nd == t[line.node]
        indent_str == Repeat(" ", a.indent * line.depth)
    IN  IF is_path(nd)
        THEN <<indent_str \o nd.data.str,
               IF nd.cumulative_size # NoneSize
               THEN SizeString(nd.cumulative_size, a.human_readable) ELSE <<"-">>,
               IF nd.cumulative_size # NoneSize /\ total # NoneSize
               THEN PercentStr(nd.cumulative_size, total) ELSE <<"-">>>>
        ELSE <<indent_str \o nd.data.symbol.name,
               SizeString(nd.data.symbol.size, a.human_readable),
               IF total # NoneSize THEN PercentStr(nd.data.symbol.size, total) ELSE <<"-">>>>

\* a line whose percentage is a division by total_size
DividesByTotal(t, total, line) ==
    /\ total # NoneSize
    /\ is_path(t[line.node]) => t[line.node].cumulative_size # NoneSize

\* _add_field_strings: <<field strings of the lines, error>>
AddFieldStrings(t, total, protolines, a) ==
    IF total = 0 /\ \E i \in 1..Len(protolines) : DividesByTotal(t, total, protolines[i])
    THEN <<<<>>, "ZeroDivisionError">>
    ELSE <<[i \in 1..Len(protolines) |-> FieldStrings(t, total, protolines[i], a)] \o <<>>, "">>

\* _calculate_field_sizes that counts the separators between the columns
CalculateFieldSizesWithSeparators(fields, initial, max_width) ==
    LET longest == [i \in 1..3 |->
                       LET lens == {Len(fields[k][i]) : k \in 1..Len(fields)} \cup {initial[i]}
                       IN  CHOOSE n \in lens : \A m \in lens : m <= n]
        sum == longest[1] + longest[2] + longest[3] + 6
    IN  IF max_width > 0 /\ sum > max_width
        THEN <<longest[1] - (sum - max_width), longest[2], longest[3]>>
        ELSE <<longest[1], longest[2], longest[3]>>

\* _calculate_field_sizes
CalculateFieldSizes(fields, initial, max_width) ==
    LET longest == [i \in 1..3 |->
                       LET lens == {Len(fields[k][i]) : k \in 1..Len(fields)} \cup {initial[i]}
                       IN  CHOOSE n \in lens : \A m \in lens : m <= n]
        sum == longest[1] + longest[2] + longest[3]
    IN  IF max_width > 0 /\ sum > max_width
        THEN <<longest[1] - (sum - max_width), longest[2], longest[3]>>
        ELSE <<longest[1], longest[2], longest[3]>>

\* s[:n] for any int n
Prefix(s, n) == IF n >= 0 THEN Slice(s, 0, n) ELSE Slice(s, 0, Max(Len(s) + n, 0))

\* _trim_strings
TrimStrings(fields, field_sizes) ==
    [k \in 1..Len(fields) |->
        [i \in 1..3 |->
            IF Len(fields[k][i]) > field_sizes[i]
            THEN Prefix(fields[k][i], field_sizes[i] - 3) \o <<".", ".", ".">>
            ELSE fields[k][i]] \o <<>>] \o <<>>

\* '{:{s0}}   {:>{s1}}   {:>{s2}}'.format(...), and h_fmt when right is
\* FALSE; a negative width is a ValueError (see FormatFails)
FormatFields(f, sizes, right) ==
    LJust(f[1], sizes[1]) \o <<" ", " ", " ">>
        \o (IF right THEN RJust(f[2], sizes[2]) ELSE LJust(f[2], sizes[2])) \o <<" ", " ", " ">>
        \o (IF right THEN RJust(f[3], sizes[3]) ELSE LJust(f[3], sizes[3]))

\* str.format raises ValueError for the format specification of a negative
\* width ("Sign not allowed in string format specifier")
FormatFails(sizes) == \E i \in 1..3 : sizes[i] < 0

\* Protoline(depth, node, string, colors); node 0 is None
Protoline(depth, node, string, colors) ==
    [depth |-> depth, node |-> node, string |-> string, colors |-> colors]

\* _create_header_protolines
CreateHeaderProtolines(sizes, header) ==
    LET table_header == FormatFields(<<<<"S", "y", "m", "b", "o", "l">>, <<"S", "i", "z", "e">>,
                                       <<"%">>>>, sizes, FALSE)
        separator == Repeat("=", Len(table_header))
        h == <<" ">> \o header \o <<" ">>
        mid == Len(separator) \div 2
        before == (Len(h) + 1) \div 2
        after == Len(h) \div 2
        top == IF header = <<>> THEN separator
               ELSE Prefix(separator, mid - before) \o h
                        \o (IF mid + after >= Len(separator) THEN <<>>
                            ELSE Slice(separator, mid + after, Len(separator)))
    IN  <<Protoline(0, NoNode, top, <<>>), Protoline(0, NoNode, table_header, <<>>),
          Protoline(0, NoNode, separator, <<>>)>>

\* _create_totals_protolines
CreateTotalsProtolines(total, sizes, human_readable) ==
    LET totals == FormatFields(<<<<"S", "y", "m", "b", "o", "l", "s", " ", "t", "o", "t", "a", "l">>,
                                 SizeString(total, human_readable), <<>>>>, sizes, TRUE)
        separator == Repeat("=", Len(totals))
    IN  <<Protoline(0, NoNode, separator, <<>>), Protoline(0, NoNode, totals, <<>>),
          Protoline(0, NoNode, separator, <<>>)>>

RECURSIVE AddColorsPerFile(_, _, _, _)
\* _add_colors that starts the alternation again at every line of a path
AddColorsPerFile(t, lines, alternating_colors, second) ==
    IF lines = <<>> THEN <<>>
    ELSE LET line == Head(lines)
             green == second /\ alternating_colors
             c == IF line.node = NoNode THEN <<"BOLD", "BLUE">>
                  ELSE IF is_file(t[line.node]) THEN <<"L_BLUE">>
                  ELSE IF is_dir(t[line.node]) THEN <<"BLUE">>
                  ELSE IF is_symbol(t[line.node])
                  THEN (IF green THEN <<"L_GREEN">> ELSE <<"L_YELLOW">>)
                  ELSE <<>>
             next == IF line.node # NoNode /\ is_symbol(t[line.node]) THEN ~green ELSE FALSE
         IN  <<[line EXCEPT !.colors = line.colors \o c]>>
                 \o AddColorsPerFile(t, Tail(lines), alternating_colors, next)

RECURSIVE AddColors(_, _, _, _)
\* _add_colors, from the first of the lines on; second is second_symbol_color
AddColors(t, lines, alternating_colors, second) ==
    IF lines = <<>> THEN <<>>
    ELSE LET line == Head(lines)
             green == second /\ alternating_colors
             c == IF line.node = NoNode THEN <<"BOLD", "BLUE">>
                  ELSE IF is_file(t[line.node]) THEN <<"L_BLUE">>
                  ELSE IF is_dir(t[line.node]) THEN <<"BLUE">>
                  ELSE IF is_symbol(t[line.node])
                  THEN (IF green THEN <<"L_GREEN">> ELSE <<"L_YELLOW">>)
                  ELSE <<>>
             next == IF line.node # NoNode /\ is_symbol(t[line.node]) THEN ~green ELSE second
         IN  <<[line EXCEPT !.colors = line.colors \o c]>>
                 \o AddColors(t, Tail(lines), alternating_colors, next)

\* generate_printable_lines: the lines, the field sizes it computed and the
\* exception it raised
GeneratePrintableLines(t, total, a) ==
    LET protolines == GenerateProtolines(t, a.min_size)
        added == AddFieldStrings(t, total, protolines, a)
        field_sizes == CalculateFieldSizes(added[1], <<6, 4, 1>>, a.max_width)
        fields == IF a.trim THEN TrimStrings(added[1], field_sizes) ELSE added[1]
        data == [k \in 1..Len(protolines) |->
                    Protoline(protolines[k].depth, protolines[k].node,
                              FormatFields(fields[k], field_sizes, TRUE), <<>>)] \o <<>>
        all == CreateHeaderProtolines(field_sizes, a.header) \o data
                 \o (IF total # NoneSize
                     THEN CreateTotalsProtolines(total, field_sizes, a.human_readable)
                     ELSE <<>>)
    IN  IF added[2] # ""
        THEN [lines |-> <<>>, field_sizes |-> <<>>, err |-> added[2]]
        ELSE IF FormatFails(field_sizes)
        THEN [lines |-> <<>>, field_sizes |-> field_sizes, err |-> "ValueError"]
        ELSE [lines |-> IF a.colors THEN AddColors(t, all, a.alternating_colors, FALSE) ELSE all,
              field_sizes |-> field_sizes, err |-> ""]

\* ------------------------------------------------------------------------
\* The tree as a state machine: any sequence of calls on one tree
\* ------------------------------------------------------------------------
VARIABLES nodes, symbols, total_size, err, lastOp, passes, out,
          pc, args, views, elf, log, fmt

\* the tree, the list of symbols given to it, the exception raised, the last
\* call, the number of passes made and what was rendered
treeVars == <<nodes, symbols, total_size, err, lastOp, passes, out>>

\* main(): the statement it is at, the parsed arguments, the memory views
\* still to print, the symbols read from the ELF file and the passes made
\* over the tree of the current view; fmt is the argument and the result of
\* a call of sizeof_fmt on its own
mainVars == <<pc, args, views, elf, log, fmt>>

vars == <<nodes, symbols, total_size, err, lastOp, passes, out, pc, args, views, elf, log, fmt>>

S_a == <<"a">>
S_b == <<"b">>
S_c == <<"c">>
S_z == <<"z">>
F_xya == <<"/", "x", "/", "y", "/", "a", ".", "c">>
F_xyb == <<"/", "x", "/", "y", "/", "b", ".", "c">>
F_xz == <<"/", "x", "/", "z", ".", "c">>
F_xyya == <<"/", "x", "/", "y", "y", "/", "a", ".", "c">>
F_xy == <<"/", "x", "/", "y">>
F_dot == <<".">>

\* the section headers of the ELF file: .text, .data and .bss
Sections ==
    <<[num |-> 1, type |-> "PROGBITS", flags |-> {"A", "X"}],
      [num |-> 2, type |-> "PROGBITS", flags |-> {"W", "A"}],
      [num |-> 3, type |-> "NOBITS", flags |-> {"W", "A"}]>>

SymA == Symbol(S_a, 10, F_xya, 1)
SymB == Symbol(S_b, 20, F_xyb, 1)
SymC == Symbol(S_c, 5, F_xz, 2)
SymO == Symbol(S_a, 5, NoneFile, 3)

\* the symbols a caller may add: three files of one directory, a file in a
\* sibling directory with the same initial, a file that is also a directory
\* of another, a file name without components and a symbol without a file
SymbolPool ==
    {SymA, SymC, SymO, Symbol(S_c, 5, F_xyya, 1), Symbol(S_b, 20, F_xy, 1),
     Symbol(S_z, 10, F_dot, 2)}

MinSizes == {10, MathInf}

\* the last call made on the tree: its name, its fish_like or reset flag and
\* whether the call before it was of the same method
Op(op, flag) == [op |-> op, flag |-> flag, again |-> FALSE]

After(last, op, flag) == [op |-> op, flag |-> flag, again |-> last.op = op]

NoOut ==
    [kind |-> "none", min_size |-> 0, protolines |-> <<>>, node_dict |-> <<>>,
     rows |-> <<>>, overall_size |-> 0, print_args |-> <<>>, lines |-> <<>>,
     field_sizes |-> <<>>]

\* the parsed command line
Args(rom, ram, use_sections, merge, no_cumulative_size, sort_by_name, no_totals, output, files_only, min_size) ==
    [rom |-> rom, ram |-> ram, use_sections |-> use_sections,
     no_merge_paths |-> merge = "no", fish_paths |-> merge = "fish",
     no_cumulative_size |-> no_cumulative_size, sort_by_name |-> sort_by_name,
     no_totals |-> no_totals, json |-> output = "json", html |-> output = "html",
     files_only |-> files_only, min_size |-> min_size]

\* no call of sizeof_fmt on its own
NoFmt == [num |-> [m |-> 0, e |-> 0], string |-> <<>>, done |-> FALSE]

NoArgs == Args(FALSE, FALSE, <<>>, "no", FALSE, FALSE, FALSE, "text", FALSE, 0)

Init ==
    /\ nodes = EmptyTree
    /\ symbols = <<>>
    /\ total_size = NoneSize
    /\ err = ""
    /\ lastOp = Op("init", FALSE)
    /\ passes = 0
    /\ out = NoOut
    /\ pc = "api"
    /\ args = NoArgs
    /\ views = <<>>
    /\ elf = <<>>
    /\ log = <<>>
    /\ fmt = NoFmt

Running == err = "" /\ out.kind = "none"

\* one more pass over the tree, while the model's budget allows it
Pass == Running /\ passes < MaxPasses /\ passes' = passes + 1

Add(symbol) ==
    /\ Running
    /\ Len(symbols) < MaxSymbols
    /\ LET r == AddSymbol(nodes, symbol)
       IN  nodes' = r[1] /\ err' = r[2]
    /\ symbols' = Append(symbols, symbol)
    /\ lastOp' = After(lastOp, "add", FALSE)
    /\ UNCHANGED <<total_size, passes, out>>
    /\ UNCHANGED mainVars

Merge(fish_like) ==
    /\ Pass
    /\ LET r == MergePaths(nodes, fish_like)
       IN  nodes' = r[1] /\ err' = r[2]
    /\ lastOp' = After(lastOp, "merge_paths", fish_like)
    /\ UNCHANGED <<symbols, total_size, out>>
    /\ UNCHANGED mainVars

Sort(key, reverse) ==
    /\ Pass
    /\ LET r == SortTree(nodes, key, reverse)
       IN  nodes' = r[1] /\ err' = r[2]
    /\ lastOp' = After(lastOp, "sort", FALSE)
    /\ UNCHANGED <<symbols, total_size, out>>
    /\ UNCHANGED mainVars

\* the call accumulate_sizes(reset) itself
AccumulateCall(reset) ==
    /\ LET r == AccumulateSizes(nodes, reset)
       IN  nodes' = r[1] /\ err' = r[2]
    /\ lastOp' = After(lastOp, "accumulate_sizes", reset)
    /\ UNCHANGED <<symbols, total_size, out>>
    /\ UNCHANGED mainVars

Accumulate(reset) == Pass /\ AccumulateCall(reset)

Total ==
    /\ Pass
    /\ total_size' = CalculateTotalSize(nodes)
    /\ lastOp' = After(lastOp, "calculate_total_size", FALSE)
    /\ UNCHANGED <<nodes, symbols, err, out>>
    /\ UNCHANGED mainVars

Protolines(min_size) ==
    /\ Running
    /\ out' = [NoOut EXCEPT !.kind = "protolines", !.min_size = min_size,
                            !.protolines = GenerateProtolines(nodes, min_size)]
    /\ UNCHANGED <<nodes, symbols, total_size, err, lastOp, passes>>
    /\ UNCHANGED mainVars

NodeDict(min_size) ==
    /\ Running
    /\ LET r == GenerateNodeDict(nodes, min_size)
       IN  /\ out' = [NoOut EXCEPT !.kind = "node_dict", !.min_size = min_size,
                                   !.node_dict = r[1]]
           /\ err' = r[2]
    /\ UNCHANGED <<nodes, symbols, total_size, lastOp, passes>>
    /\ UNCHANGED mainVars

PrintableLines(a) ==
    /\ Running
    /\ LET r == GeneratePrintableLines(nodes, total_size, a)
       IN  /\ out' = [NoOut EXCEPT !.kind = "lines", !.min_size = a.min_size,
                                   !.print_args = a, !.lines = r.lines,
                                   !.field_sizes = r.field_sizes]
           /\ err' = r.err
    /\ UNCHANGED <<nodes, symbols, total_size, lastOp, passes>>
    /\ UNCHANGED mainVars

Next ==
    \/ \E symbol \in SymbolPool : Add(symbol)
    \/ \E fish_like \in BOOLEAN : Merge(fish_like)
    \/ \E key \in SymbolKeys, reverse \in BOOLEAN : Sort(key, reverse)
    \/ \E reset \in BOOLEAN : Accumulate(reset)
    \/ Total
    \/ \E min_size \in MinSizes : Protolines(min_size)
    \/ \E min_size \in MinSizes : NodeDict(min_size)

Spec == Init /\ [][Next]_vars

\* symbols whose file starts with the name of the orphans bucket
F_q == <<"?">>
F_qa == <<"?", "/", "a", ".", "c">>
SymQ == Symbol(S_b, 20, F_q, 1)
SymQA == Symbol(S_c, 5, F_qa, 1)

\* the symbols a caller may add, a file named like the orphans bucket and a
\* file in a directory named like it among them
SentinelPool == {SymA, SymO, SymQ, SymQA}

NextSentinel ==
    \/ \E symbol \in SentinelPool : Add(symbol)
    \/ \E fish_like \in BOOLEAN : Merge(fish_like)
    \/ \E key \in SymbolKeys, reverse \in BOOLEAN : Sort(key, reverse)
    \/ \E reset \in BOOLEAN : Accumulate(reset)
    \/ Total
    \/ \E min_size \in MinSizes : Protolines(min_size)
    \/ \E min_size \in MinSizes : NodeDict(min_size)

SpecSentinel == Init /\ [][NextSentinel]_vars

\* the arguments of the calls of sizeof_fmt on its own: m * 1024^e
Mantissas == {0, 1, 2, 512, 1023, 1024, 1025, 1280, 1792, 2048, 1048575, 1048576}

MaxExponent == 9

\* beyond 1024^9 only the numbers whose tenths after eight divisions are
\* still small
FmtInputs ==
    {num \in {Float(m, e) : m \in Mantissas \ {0}, e \in 0..MaxExponent} :
        num.e <= 8 \/ num.m < 100000 \div Pow1024(num.e - 9)}
        \cup {Float(0, 0)}

FmtInit ==
    /\ nodes = EmptyTree
    /\ symbols = <<>>
    /\ total_size = NoneSize
    /\ err = ""
    /\ lastOp = Op("init", FALSE)
    /\ passes = 0
    /\ out = NoOut
    /\ pc = "sizeof_fmt"
    /\ args = NoArgs
    /\ views = <<>>
    /\ elf = <<>>
    /\ log = <<>>
    /\ fmt \in {[NoFmt EXCEPT !.num = num] : num \in FmtInputs}

SizeofFmt ==
    /\ pc = "sizeof_fmt"
    /\ ~fmt.done
    /\ fmt' = [fmt EXCEPT !.string = sizeof_fmt(fmt.num), !.done = TRUE]
    /\ UNCHANGED <<treeVars, pc, args, views, elf, log>>

FmtNext == SizeofFmt

SpecFmt == FmtInit /\ [][FmtNext]_vars

\* the symbols added to the trees that are printed as text
TextPool == {SymA, SymB, SymO}

MaxWidths == {0, 1, 5, 12, 16, 80}

\* the calls of generate_printable_lines: every width with the other
\* arguments as main gives them by default, and the other arguments one by one
PrintArgsSet ==
    {PrintArgs(w, 0, <<>>, FALSE, FALSE, TRUE, FALSE) : w \in MaxWidths}
        \cup {PrintArgs(w, 0, <<>>, FALSE, FALSE, TRUE, TRUE) : w \in {0, 12}}
        \cup {PrintArgs(80, 0, <<"R", "O", "M">>, TRUE, alt, TRUE, FALSE) : alt \in BOOLEAN}
        \cup {PrintArgs(12, 0, <<>>, FALSE, FALSE, FALSE, FALSE)}
        \cup {PrintArgs(80, m, <<>>, FALSE, FALSE, TRUE, FALSE) : m \in MinSizes}

NextText ==
    \/ \E symbol \in TextPool : Add(symbol)
    \/ \E fish_like \in BOOLEAN : Merge(fish_like)
    \/ Accumulate(TRUE)
    \/ Total
    \/ \E a \in PrintArgsSet : PrintableLines(a)

SpecText == Init /\ [][NextText]_vars

\* the symbols of the trees that are accumulated again and again
AccumulatePool == {SymA, SymC, SymO}

MaxAccumulations == 3

\* accumulate_sizes called up to MaxAccumulations times on one tree
AccumulateAgain(reset) ==
    /\ Running
    /\ passes < MaxAccumulations
    /\ passes' = passes + 1
    /\ AccumulateCall(reset)

NextAccumulate ==
    \/ \E symbol \in AccumulatePool : Add(symbol)
    \/ \E reset \in BOOLEAN : AccumulateAgain(reset)

SpecAccumulate == Init /\ [][NextAccumulate]_vars

\* ------------------------------------------------------------------------
\* generate_html_output
\* ------------------------------------------------------------------------
\* html.escape of one character
HtmlEscapeChar(c) ==
    CASE c = "&" -> <<"&", "a", "m", "p", ";">>
      [] c = "<" -> <<"&", "l", "t", ";">>
      [] c = ">" -> <<"&", "g", "t", ";">>
      [] c = "\"" -> <<"&", "q", "u", "o", "t", ";">>
      [] c = "'" -> <<"&", "#", "x", "2", "7", ";">>
      [] OTHER -> <<c>>

RECURSIVE HtmlEscape(_)
HtmlEscape(str) ==
    IF str = <<>> THEN <<>> ELSE HtmlEscapeChar(Head(str)) \o HtmlEscape(Tail(str))

RECURSIVE PrintChildren(_, _)
\* _print_children: one table row per entry, an entry before its children
PrintChildren(d, level) ==
    IF d = <<>> THEN <<>>
    ELSE <<[label |-> HtmlEscape(Head(d).key), padding |-> 10 * level,
            cumulative_size |-> Head(d).cumulative_size]>>
         \o (IF Head(d).has_children THEN PrintChildren(Head(d).children, level + 1) ELSE <<>>)
         \o PrintChildren(Tail(d), level)

RECURSIVE OverallSize(_, _)
\* overall_size + y["cumulative_size"] over the top-level entries: <<sum, error>>
OverallSize(d, sum) ==
    IF d = <<>> THEN <<sum, "">>
    ELSE IF Head(d).cumulative_size = NoneSize THEN <<sum, "TypeError">>
    ELSE OverallSize(Tail(d), sum + Head(d).cumulative_size)

\* <<rows, overall size, error>>
GenerateHtmlOutput(node_dict) ==
    LET o == OverallSize(node_dict, 0)
    IN  <<PrintChildren(node_dict, 0), o[1], o[2]>>

\* ------------------------------------------------------------------------
\* main() of __main__.py
\* ------------------------------------------------------------------------
occupies_memory(sec) == "A" \in sec.flags
is_writable(sec) == "W" \in sec.flags
occupies_rom(sec) == occupies_memory(sec) /\ sec.type # "NOBITS"
occupies_ram(sec) == occupies_memory(sec) /\ is_writable(sec)

\* the predicate main gives filter_symbols for a view, on the section of a
\* symbol; a symbol whose section is not a section header is left out
SectionKey(view, num, a) ==
    /\ \E i \in 1..Len(Sections) : Sections[i].num = num
    /\ LET sec == Sections[CHOOSE i \in 1..Len(Sections) : Sections[i].num = num]
       IN  CASE view = "ROM" -> occupies_rom(sec)
             [] view = "RAM" -> occupies_ram(sec)
             [] OTHER -> InSeq(a.use_sections, sec.num)

FilterSymbols(view, syms, a) ==
    LET Keep(sym) == SectionKey(view, sym.section, a)
    IN  Filter(syms, Keep)

\* the views main prints, in its order
RequestedViews(a) ==
    (IF a.rom THEN <<"ROM">> ELSE <<>>) \o (IF a.ram THEN <<"RAM">> ELSE <<>>)
        \o (IF a.use_sections # <<>> THEN <<"SECTIONS">> ELSE <<>>)

\* PassOrder with the sort made before the accumulation
PassOrderSortFirst ==
    <<"build", "merge_paths", "sort", "accumulate_sizes", "calculate_total_size", "render">>

\* the statements of prepare_tree and the call of print_func, in their order
PassOrder ==
    <<"build", "merge_paths", "accumulate_sizes", "sort", "calculate_total_size", "render">>

PassWanted(pass, a) ==
    CASE pass = "merge_paths" -> ~a.no_merge_paths
      [] pass = "accumulate_sizes" -> ~a.no_cumulative_size
      [] pass = "calculate_total_size" -> ~a.no_totals
      [] OTHER -> TRUE

PassIndex(pass) == CHOOSE i \in 1..Len(PassOrder) : PassOrder[i] = pass

\* the statement that runs after pass
NextPass(pass, a) ==
    LET later == {i \in (PassIndex(pass) + 1)..Len(PassOrder) : PassWanted(PassOrder[i], a)}
    IN  PassOrder[CHOOSE i \in later : \A j \in later : i <= j]

RECURSIVE BuildTree(_, _)
\* the loop of SymbolsTreeByPath.__init__: <<tree, error>>
BuildTree(t, syms) ==
    IF syms = <<>> THEN <<t, "">>
    ELSE LET r == AddSymbol(t, Head(syms))
         IN  IF r[2] # "" THEN r ELSE BuildTree(r[1], Tail(syms))

\* math.inf if args.files_only else args.min_size
MinSizeOf(a) == IF a.files_only THEN MathInf ELSE a.min_size

\* the symbols readelf and nm found, in the order of the symbol table
ElfSymbols == <<SymA, SymB, SymC, SymO>>

RECURSIVE SubLists(_)
SubLists(s) ==
    IF s = <<>> THEN {<<>>}
    ELSE LET rest == SubLists(Tail(s))
         IN  rest \cup {<<Head(s)>> \o r : r \in rest}

ArgsSet ==
    {Args(rom, ram, use_sections, merge, no_cumulative_size, sort_by_name, no_totals,
          output, files_only, min_size) :
        rom \in BOOLEAN, ram \in BOOLEAN, use_sections \in {<<>>, <<3>>},
        merge \in {"no", "plain", "fish"}, no_cumulative_size \in BOOLEAN,
        sort_by_name \in BOOLEAN, no_totals \in BOOLEAN,
        output \in {"text", "json", "html"}, files_only \in BOOLEAN, min_size \in {10}}

MainInit ==
    /\ nodes = <<>>
    /\ symbols = <<>>
    /\ total_size = NoneSize
    /\ err = ""
    /\ lastOp = Op("init", FALSE)
    /\ passes = 0
    /\ out = NoOut
    /\ pc = "main"
    /\ args \in ArgsSet
    /\ views = <<>>
    /\ elf \in SubLists(ElfSymbols)
    /\ log = <<>>
    /\ fmt = NoFmt

\* the pass has run: go on with the next statement, or stop at an exception
Ran(pass, error) ==
    /\ err' = error
    /\ log' = Append(log, pass)
    /\ pc' = IF error # "" THEN "crashed" ELSE NextPass(pass, args)

\* no memory type action: main returns 1
MainStart ==
    /\ pc = "main"
    /\ views' = RequestedViews(args)
    /\ pc' = IF RequestedViews(args) = <<>> THEN "exit" ELSE "filter"
    /\ UNCHANGED <<treeVars, args, elf, log, fmt>>

\* filter_symbols: sys.exit(1) when no symbol is in the sections of the view
MainFilter ==
    /\ pc = "filter"
    /\ symbols' = FilterSymbols(Head(views), elf, args)
    /\ pc' = IF FilterSymbols(Head(views), elf, args) = <<>> THEN "exit" ELSE "build"
    /\ log' = <<>>
    /\ out' = NoOut
    /\ UNCHANGED <<nodes, total_size, err, lastOp, passes, args, views, elf, fmt>>

MainBuild ==
    /\ pc = "build"
    /\ LET r == BuildTree(EmptyTree, symbols)
       IN  nodes' = r[1] /\ Ran("build", r[2])
    /\ total_size' = NoneSize
    /\ lastOp' = After(lastOp, "add", FALSE)
    /\ UNCHANGED <<symbols, passes, out, args, views, elf, fmt>>

MainMerge ==
    /\ pc = "merge_paths"
    /\ LET r == MergePaths(nodes, args.fish_paths)
       IN  nodes' = r[1] /\ Ran("merge_paths", r[2])
    /\ lastOp' = After(lastOp, "merge_paths", args.fish_paths)
    /\ UNCHANGED <<symbols, total_size, passes, out, args, views, elf, fmt>>

MainAccumulate ==
    /\ pc = "accumulate_sizes"
    /\ LET r == AccumulateSizes(nodes, TRUE)
       IN  nodes' = r[1] /\ Ran("accumulate_sizes", r[2])
    /\ lastOp' = After(lastOp, "accumulate_sizes", TRUE)
    /\ UNCHANGED <<symbols, total_size, passes, out, args, views, elf, fmt>>

MainSort ==
    /\ pc = "sort"
    /\ LET r == IF args.sort_by_name THEN SortTree(nodes, "name", FALSE)
                ELSE SortTree(nodes, "size", TRUE)
       IN  nodes' = r[1] /\ Ran("sort", r[2])
    /\ lastOp' = After(lastOp, "sort", FALSE)
    /\ UNCHANGED <<symbols, total_size, passes, out, args, views, elf, fmt>>

MainTotal ==
    /\ pc = "calculate_total_size"
    /\ total_size' = CalculateTotalSize(nodes)
    /\ Ran("calculate_total_size", "")
    /\ lastOp' = After(lastOp, "calculate_total_size", FALSE)
    /\ UNCHANGED <<nodes, symbols, passes, out, args, views, elf, fmt>>

\* print_func: print_json, print_html or print_tree
PrintOutput(t, a) ==
    LET min_size == MinSizeOf(a)
        d == GenerateNodeDict(t, min_size)
        h == GenerateHtmlOutput(d[1])
        o == [NoOut EXCEPT !.min_size = min_size]
    IN  IF a.json
        THEN <<[o EXCEPT !.kind = "node_dict", !.node_dict = d[1]], d[2]>>
        ELSE IF a.html
        THEN IF d[2] # "" THEN <<[o EXCEPT !.kind = "node_dict", !.node_dict = d[1]], d[2]>>
             ELSE <<[o EXCEPT !.kind = "html", !.node_dict = d[1], !.rows = h[1],
                              !.overall_size = h[2]], h[3]>>
        ELSE <<[o EXCEPT !.kind = "protolines",
                         !.protolines = GenerateProtolines(t, min_size)], "">>

MainRender ==
    /\ pc = "render"
    /\ LET r == PrintOutput(nodes, args)
       IN  /\ out' = r[1]
           /\ err' = r[2]
           /\ pc' = IF r[2] # "" THEN "crashed"
                    ELSE IF Tail(views) = <<>> THEN "done" ELSE "filter"
    /\ log' = Append(log, "render")
    /\ views' = Tail(views)
    /\ UNCHANGED <<nodes, symbols, total_size, lastOp, passes, args, elf, fmt>>

MainNext ==
    \/ MainStart
    \/ MainFilter
    \/ MainBuild
    \/ MainMerge
    \/ MainAccumulate
    \/ MainSort
    \/ MainTotal
    \/ MainRender

SpecMain == MainInit /\ [][MainNext]_vars

\* ------------------------------------------------------------------------
\* Trees constructed from a list of symbols and printed in colors
\* ------------------------------------------------------------------------
\* SymbolsTreeByPath(symbols): the tree right after its construction
ConstructedInit ==
    /\ symbols \in SubLists(ElfSymbols)
    /\ nodes = BuildTree(EmptyTree, symbols)[1]
    /\ total_size = NoneSize
    /\ err = ""
    /\ lastOp = Op("init", FALSE)
    /\ passes = 0
    /\ out = NoOut
    /\ pc = "api"
    /\ args = NoArgs
    /\ views = <<>>
    /\ elf = <<>>
    /\ log = <<>>
    /\ fmt = NoFmt

\* the calls of generate_printable_lines with colors
ColorArgsSet ==
    {PrintArgs(80, m, <<>>, TRUE, alt, TRUE, FALSE) : m \in {0, 10}, alt \in BOOLEAN}

NextColors ==
    \/ \E fish_like \in BOOLEAN : Merge(fish_like)
    \/ Accumulate(TRUE)
    \/ Total
    \/ \E a \in ColorArgsSet : PrintableLines(a)

SpecColors == ConstructedInit /\ [][NextColors]_vars

\* ------------------------------------------------------------------------
\* Trees with equal keys that are sorted
\* ------------------------------------------------------------------------
\* two files of equal size in one directory, the second with symbols of
\* equal size and symbols of equal name
SortSymbols == <<SymB, Symbol(S_c, 5, F_xya, 1), SymA, Symbol(S_a, 5, F_xya, 1)>>

SortInit ==
    /\ symbols \in SubLists(SortSymbols)
    /\ nodes = BuildTree(EmptyTree, symbols)[1]
    /\ total_size = NoneSize
    /\ err = ""
    /\ lastOp = Op("init", FALSE)
    /\ passes = 0
    /\ out = NoOut
    /\ pc = "api"
    /\ args = NoArgs
    /\ views = <<>>
    /\ elf = <<>>
    /\ log = <<>>
    /\ fmt = NoFmt

NextSort ==
    \/ \E fish_like \in BOOLEAN : Merge(fish_like)
    \/ Accumulate(TRUE)
    \/ \E key \in SymbolKeys, reverse \in BOOLEAN : Sort(key, reverse)

SpecSort == SortInit /\ [][NextSort]_vars

\* ------------------------------------------------------------------------
\* Properties of the tree passes
\* ------------------------------------------------------------------------
SymbolSizes(syms) == [i \in 1..Len(syms) |-> syms[i].size]

\* the sum of the sizes of the symbol leaves below n (n included)
SubtreeSize(t, n) == 
    LET IsSym(m) == is_symbol(t[m])
        leaves == Filter(Nodes(PreOrder(t, n)), IsSym)
    IN  SumSeq([i \in 1..Len(leaves) |-> t[leaves[i]].data.symbol.size])

HasFile(sym) == sym.file # NoneFile
HasNoFile(sym) == sym.file = NoneFile

IsStep(op) == lastOp'.op = op /\ passes' = passes + 1

\* a path node with exactly one child, which is a path node
IsChainLink(t, n) ==
    is_path(t[n]) /\ Len(t[n].children) = 1 /\ is_path(t[t[n].children[1]])

RECURSIVE ChainName(_, _, _)
\* the plain join of the names of the chain of links that leads to n
ChainName(t, n, fuel) ==
    IF fuel > 0 /\ t[n].parent # NoNode /\ IsChainLink(t, t[n].parent)
    THEN PathJoin(ChainName(t, t[n].parent, fuel - 1), t[n].data.str)
    ELSE t[n].data.str

RECURSIVE ChainEnd(_, _, _)
ChainEnd(t, n, fuel) ==
    IF fuel > 0 /\ IsChainLink(t, n) THEN ChainEnd(t, t[n].children[1], fuel - 1) ELSE n

C2_AccumulationCorrect ==
    lastOp.op = "accumulate_sizes" /\ lastOp.flag =>
        /\ err = ""
        /\ \A n \in Reachable(nodes) :
              is_path(nodes[n]) => nodes[n].cumulative_size = SubtreeSize(nodes, n)
        /\ nodes[ORPHANS].cumulative_size = SumSeq(SymbolSizes(Filter(symbols, HasNoFile)))

\* accumulate_sizes() on a merged tree with a symbol in a file and an orphan
C2_Witness ==
    /\ lastOp.op = "accumulate_sizes" /\ lastOp.flag
    /\ nodes[ORPHANS].cumulative_size = 5
    /\ \E n \in Reachable(nodes) :
          /\ is_path(nodes[n]) /\ Len(nodes[n].data.str) > 4
          /\ nodes[n].cumulative_size = 10

\* C3: every call of accumulate_sizes, with reset or without, completes
\* without an error and leaves the orphans bucket with a cumulative size,
\* which is 0 when the bucket has no children.
C3_AccumulateAlwaysCompletes ==
    lastOp.op = "accumulate_sizes" =>
        /\ err = ""
        /\ nodes[ORPHANS].cumulative_size # NoneSize
        /\ nodes[ORPHANS].children = <<>> => nodes[ORPHANS].cumulative_size = 0

\* what one pass of merge_paths has to make of tree t
MergePost(t, r, fish_like) ==
    /\ \A n \in Reachable(r) : ~IsChainLink(r, n)
    /\ Reachable(r) = {n \in Reachable(t) : ~IsChainLink(t, n)}
    /\ \A n \in Reachable(r) :
          /\ Len(r[n].children) = Len(t[n].children)
          /\ {r[n].children[i] : i \in 1..Len(r[n].children)}
                = {ChainEnd(t, t[n].children[i], Len(t)) : i \in 1..Len(t[n].children)}
          /\ \A i \in 1..Len(r[n].children) : r[r[n].children[i]].parent = n
          /\ is_path(t[n]) /\ ~fish_like => r[n].data.str = ChainName(t, n, Len(t))
          /\ is_path(t[n]) /\ Len(t[n].children) = 1 /\ is_symbol(t[t[n].children[1]])
                => r[n].children = t[n].children
    /\ symbols = <<SymA>> =>
          \E n \in Reachable(r) :
              /\ r[n].data.str = F_xya /\ r[n].parent = ROOT
              /\ Len(r[n].children) = 1 /\ is_symbol(r[r[n].children[1]])
              /\ \A m \in Reachable(r) : is_path(r[m]) => m \in {n, ORPHANS}

\* C4 (Merge correctness): one pass of merge_paths splices out every path
\* node that has exactly one child which is a path node, so that no such
\* node is left, every other node stays, with the ends of the chains below
\* it as its children and (fish_like off) the joined names of its chain as
\* its name; a path node whose only child is a symbol stays as it is.
C4_MergeCorrectness ==
    [][IsStep("merge_paths") /\ err' = "" => MergePost(nodes, nodes', lastOp'.flag)]_vars

\* after a merge of the tree of the one symbol a in /x/y/a.c: the chain
\* /, x, y, a.c has become the one node /x/y/a.c
C4_Witness ==
    /\ lastOp.op = "merge_paths"
    /\ symbols = <<SymA>>
    /\ \E n \in Reachable(nodes) : nodes[n].data.str = F_xya /\ nodes[n].parent = ROOT

\* C5 (Merge idempotence): a merge_paths that follows a merge_paths leaves
\* every node, name, parent, child list and sibling order as it was.
C5_MergeIdempotent ==
    [][IsStep("merge_paths") /\ lastOp.op = "merge_paths" => nodes' = nodes]_vars

\* a second merge in a row, of a tree in which the first collapsed a chain
C5_Witness ==
    /\ lastOp.op = "merge_paths" /\ lastOp.again
    /\ Len(symbols) = 2
    /\ \E n \in Reachable(nodes) : is_path(nodes[n]) /\ Len(nodes[n].data.str) > 4

\* directories 0, files 1, nodes that are neither 2, symbols 3
KindRank(nd) ==
    IF is_dir(nd) THEN 0 ELSE IF is_file(nd) THEN 1 ELSE IF is_symbol(nd) THEN 3 ELSE 2

PartitionOrdered(t, n) ==
    \A i, j \in 1..Len(t[n].children) :
        i < j => KindRank(t[t[n].children[i]]) <= KindRank(t[t[n].children[j]])

\* the children of every node that are not symbols, in their order
NonSymbolChildren(t) ==
    LET NotSymbol(c) == ~is_symbol(t[c])
    IN  [n \in 1..Len(t) |-> Filter(t[n].children, NotSymbol)]

\* C6 (Sort partition order): after a sort that completed, the children of
\* every node are its directories, then its files, then its symbols; and
\* sorting a tree (one that can still be sorted) with another key or another
\* reverse gives the same outcome and the same order of the children that
\* are not symbols.
C6_SortPartitionOrder ==
    /\ lastOp.op = "sort" /\ err = "" =>
          \A n \in Reachable(nodes) :
              /\ PartitionOrdered(nodes, n)
              /\ \A i \in 1..Len(nodes[n].children) : KindRank(nodes[nodes[n].children[i]]) # 2
    /\ Running /\ passes < MaxPasses =>
          \A key \in SymbolKeys, reverse \in BOOLEAN :
              LET a == SortTree(nodes, "name", FALSE)
                  b == SortTree(nodes, key, reverse)
              IN  a[2] = b[2] /\ NonSymbolChildren(a[1]) = NonSymbolChildren(b[1])

\* after a sort, a node (the root) with a directory, a file and a symbol
\* among its children, and a node with a file and a symbol
C6_Witness ==
    /\ lastOp.op = "sort" /\ err = ""
    /\ \E i, j, k \in 1..Len(nodes[ROOT].children) :
          /\ is_dir(nodes[nodes[ROOT].children[i]])
          /\ is_file(nodes[nodes[ROOT].children[j]])
          /\ is_symbol(nodes[nodes[ROOT].children[k]])

RECURSIVE DictLookup(_, _)
\* the entry found by following the keys, <<>> when a key is missing
DictLookup(d, keys) ==
    LET i == DictIndex(d, Head(keys))
    IN  IF i = 0 THEN <<>>
        ELSE IF Len(keys) = 1 THEN <<d[i]>>
        ELSE DictLookup(d[i].children, Tail(keys))

KeyPath(t, n) ==
    LET nodePath == NodePath(t, n, Len(t))
    IN  [i \in 1..Len(nodePath) |-> get_key(t[nodePath[i]])]

\* the mapping has an entry for node n where its labels lead
HasEntry(t, d, n) ==
    LET e == DictLookup(d, KeyPath(t, n))
    IN  e # <<>> /\ e[1].has_children = ~is_symbol(t[n])

RECURSIVE CountSymbolEntries(_)
CountSymbolEntries(d) ==
    IF d = <<>> THEN 0
    ELSE (IF Head(d).has_children THEN CountSymbolEntries(Head(d).children) ELSE 1)
         + CountSymbolEntries(Tail(d))

\* C7 (Min-size filtering): the lines of _generate_protolines and the
\* mapping of _generate_node_dict hold every path node of the tree and every
\* symbol leaf of size at least min_size, and no symbol leaf below min_size.
C7_MinSizeFiltering ==
    LET shown == {out.protolines[i].node : i \in 1..Len(out.protolines)}
        leaves == {n \in Reachable(nodes) : is_symbol(nodes[n])}
        big == {n \in leaves : ~BelowMinSize(nodes[n].data.symbol.size, out.min_size)}
    IN  /\ out.kind = "protolines" =>
              /\ \A n \in Reachable(nodes) : is_path(nodes[n]) => n \in shown
              /\ \A n \in leaves : n \in shown <=> n \in big
        /\ out.kind = "node_dict" /\ err = "" =>
              /\ \A n \in Reachable(nodes) : is_path(nodes[n]) => HasEntry(nodes, out.node_dict, n)
              /\ \A n \in big : HasEntry(nodes, out.node_dict, n)
              /\ CountSymbolEntries(out.node_dict) <= Cardinality(big)

RECURSIVE MirrorDict(_, _, _, _)
\* one entry per retained child of n, in child order, each with the entries
\* of its own children
MirrorDict(t, n, min_size, fuel) ==
    LET Keep(c) == Retained(t, c, min_size)
        kept == Filter(t[n].children, Keep)
    IN  IF fuel = 0 THEN <<>>
        ELSE [i \in 1..Len(kept) |->
                 [NodeEntry(t, kept[i]) EXCEPT !.children = MirrorDict(t, kept[i], min_size, fuel - 1)]]

\* C9: the mapping of _generate_node_dict has one entry per retained node,
\* under the entry of its parent and in child order, also when two siblings
\* have the same label.
C9_NodeDictMirrorsTree ==
    out.kind = "node_dict" /\ err = "" =>
        out.node_dict = MirrorDict(nodes, ROOT, out.min_size, Len(nodes))

\* C11 (Sibling-name uniqueness): whatever calls of add and merge_paths were
\* made, no node has two path-node children with the same name.
C11_SiblingNamesUnique ==
    \A n \in Reachable(nodes) :
        \A i, j \in 1..Len(nodes[n].children) :
            LET a == nodes[nodes[n].children[i]]
                b == nodes[nodes[n].children[j]]
            IN  i < j /\ is_path(a) /\ is_path(b) => a.data.str # b.data.str

\* C12: whatever calls of add, merge_paths, sort and accumulate_sizes were
\* made, the orphans bucket is a child of the root, the only one named '?';
\* its children are the leaves of the symbols without a file, one for each
\* such symbol that was added, and no such leaf is anywhere else.
C12_OrphansBucket ==
    LET top == nodes[ROOT].children
        bucket == nodes[ORPHANS].children
    IN  /\ Cardinality({i \in 1..Len(top) : top[i] = ORPHANS}) = 1
        /\ Cardinality({i \in 1..Len(top) :
                           is_path(nodes[top[i]]) /\ nodes[top[i]].data.str = <<"?">>}) = 1
        /\ \A i \in 1..Len(bucket) :
              is_symbol(nodes[bucket[i]]) /\ HasNoFile(nodes[bucket[i]].data.symbol)
        /\ Len(bucket) = Len(Filter(symbols, HasNoFile))
        /\ \A n \in Reachable(nodes) :
              is_symbol(nodes[n]) /\ HasNoFile(nodes[n].data.symbol)
                  => nodes[n].parent = ORPHANS

\* num < 1024^(k + 1), for num = m * 1024^e with m below 2^21
BelowPow(num, k) ==
    \/ num.m = 0
    \/ k + 1 - num.e >= 3
    \/ k + 1 - num.e >= 0 /\ num.m < Pow1024(k + 1 - num.e)

\* the number of divisions by 1024 that bring num below 1024, 8 at most
Scalings(num) ==
    IF \E k \in 0..7 : BelowPow(num, k)
    THEN CHOOSE k \in 0..7 : BelowPow(num, k) /\ \A j \in 0..(k - 1) : ~BelowPow(num, j)
    ELSE 8

\* C15: sizeof_fmt divides by 1024 as often as it takes to get below 1024,
\* takes the unit of that index from '', Ki, ..., Zi, and Yi after eight
\* divisions; the result is the scaled number with one decimal, a space and
\* the unit with B left-justified in 3 characters; 2048 gives '2.0 KiB' and
\* 0 gives '0.0 B  '.
C15_SizeofFmt ==
    fmt.done =>
        LET k == Scalings(fmt.num)
            unit == (Units \o <<<<"Y", "i">>>>)[k + 1]
            n == Len(fmt.string)
        IN  /\ Slice(fmt.string, n - 3, n) = (unit \o <<"B">>) \o Repeat(" ", 2 - Len(unit))
            /\ fmt.string[n - 3] = " "
            /\ Slice(fmt.string, 0, n - 4) = FormatF1(Float(fmt.num.m, fmt.num.e - k))
            /\ fmt.num = Float(2048, 0) => fmt.string = <<"2", ".", "0", " ", "K", "i", "B">>
            /\ fmt.num = Float(0, 0) => fmt.string = <<"0", ".", "0", " ", "B", " ", " ">>
            /\ fmt.num = Float(1280, 0) => fmt.string = <<"1", ".", "2", " ", "K", "i", "B">>
            /\ fmt.num = Float(1048575, 0)
                  => fmt.string = <<"1", "0", "2", "4", ".", "0", " ", "K", "i", "B">>

\* 2048 formatted, and a number beyond the last unit of the list
C15_Witness ==
    /\ fmt.done
    /\ \/ fmt.num = Float(2048, 0) /\ fmt.string[Len(fmt.string) - 2] = "K"
       \/ fmt.num = Float(1, 9) /\ fmt.string[Len(fmt.string) - 2] = "Y"

\* the field strings of the lines that the last call of
\* generate_printable_lines rendered, and the widths of their longest fields
RenderedFields ==
    AddFieldStrings(nodes, total_size,
                    GenerateProtolines(nodes, out.print_args.min_size), out.print_args)[1]

LongestFields == CalculateFieldSizes(RenderedFields, <<6, 4, 1>>, 0)

\* the lines of the last call that render a node of the tree
DataLines == {k \in 1..Len(out.lines) : out.lines[k].node # NoNode}

\* C13: when generate_printable_lines returns, with max_width > 0 the label
\* column alone is shrunk by what the three columns and their separators
\* exceed max_width by, so that no data line is wider than max_width; with
\* max_width = 0 every column is as wide as its longest field
C13_LabelColumnShrink ==
    (out.kind = "lines" /\ err = "" /\ out.print_args.trim) =>
        /\ out.field_sizes
               = CalculateFieldSizesWithSeparators(RenderedFields, <<6, 4, 1>>,
                                                   out.print_args.max_width)
        /\ out.print_args.max_width > 0 =>
               \A k \in DataLines : Len(out.lines[k].string) <= out.print_args.max_width
        /\ out.print_args.max_width = 0 => out.field_sizes = LongestFields

\* C14: a max_width that leaves the label column no width or less than none
\* does not make generate_printable_lines raise: it returns its lines
C14_TinyWidthClamped ==
    (/\ out.kind = "lines"
     /\ err # "ZeroDivisionError"
     /\ out.print_args.max_width > 0
     /\ CalculateFieldSizes(RenderedFields, <<6, 4, 1>>,
                            out.print_args.max_width)[1] <= 0) =>
        /\ err = ""
        /\ out.lines # <<>>

RECURSIVE ClimbsToRoot(_, _, _)
\* following the parent pointers from n leads to the root
ClimbsToRoot(t, n, fuel) ==
    IF n = ROOT THEN TRUE
    ELSE IF fuel = 0 \/ t[n].parent = NoNode THEN FALSE
    ELSE ClimbsToRoot(t, t[n].parent, fuel - 1)

\* the places <<node, index>> of n in the child lists of the nodes reachable
\* from the root
Owners(t, n) ==
    {o \in Reachable(t) \X (1..Len(t)) :
        o[2] <= Len(t[o[1]].children) /\ t[o[1]].children[o[2]] = n}

\* C17 (Tree-structured ownership): whatever calls were made, every node
\* reachable from the root but the root is at exactly one place of exactly
\* one child list, its parent pointer is the node that has that list, the
\* parent pointers lead to the root (no cycles), the root has no parent and
\* a symbol node has no children.
C17_TreeOwnership ==
    /\ nodes[ROOT].parent = NoNode
    /\ \A n \in Reachable(nodes) \ {ROOT} :
          /\ Cardinality(Owners(nodes, n)) = 1
          /\ \A o \in Owners(nodes, n) : nodes[n].parent = o[1]
    /\ \A n \in Reachable(nodes) :
          /\ ClimbsToRoot(nodes, n, Len(nodes))
          /\ is_symbol(nodes[n]) => nodes[n].children = <<>>

\* two symbols were added, their paths merged and the tree sorted
C17_Witness ==
    /\ lastOp.op = "sort" /\ err = "" /\ passes = 2
    /\ Len(symbols) = 2
    /\ \E n \in Reachable(nodes) :
          /\ is_path(nodes[n]) /\ Len(nodes[n].data.str) > 4
          /\ Len(nodes[n].children) = 2
          /\ \A i \in 1..2 : Cardinality(Owners(nodes, nodes[n].children[i])) = 1

\* path siblings a before b are in the order of path_key: by descending
\* size when both have one, the sized one first when one has none, by
\* ascending name when both have none
PathOrdered(a, b) ==
    IF a.cumulative_size # NoneSize /\ b.cumulative_size # NoneSize
    THEN a.cumulative_size >= b.cumulative_size
    ELSE IF a.cumulative_size # NoneSize THEN TRUE
    ELSE IF b.cumulative_size # NoneSize THEN FALSE
    ELSE ~StrLess(b.data.str, a.data.str)

\* the path children of the same kind of every node are in the order of
\* path_key
SiblingsPathOrdered(t) ==
    \A n \in Reachable(t) :
        \A i, j \in 1..Len(t[n].children) :
            LET a == t[t[n].children[i]]
                b == t[t[n].children[j]]
            IN  (i < j /\ is_path(a) /\ is_path(b) /\ KindRank(a) = KindRank(b))
                    => PathOrdered(a, b)

\* C18: sort completes, also on a tree where path siblings with a size and
\* without one are mixed, and leaves the path siblings of the same kind by
\* descending cumulative size, the sized ones before the unsized ones, the
\* unsized ones by ascending name
C18_SortMixedSizes ==
    lastOp.op = "sort" => (err = "" /\ SiblingsPathOrdered(nodes))

\* the same for the sorts that completed
C18_SortCompletedOrder ==
    (lastOp.op = "sort" /\ err = "") => SiblingsPathOrdered(nodes)

\* the index of node c in the child list of node n, 0 when it is not there
ChildIndex(t, n, c) ==
    IF InSeq(t[n].children, c)
    THEN CHOOSE i \in 1..Len(t[n].children) : t[n].children[i] = c
    ELSE 0

\* C19: after a sort that completed, the orphans bucket, where it is a child
\* of the root, comes after every directory and every file among the
\* children of the root, whatever its cumulative size and its name
C19_OrphansAfterPaths ==
    (lastOp.op = "sort" /\ err = "" /\ InSeq(nodes[ROOT].children, ORPHANS)) =>
        \A i \in 1..Len(nodes[ROOT].children) :
            LET c == nodes[ROOT].children[i]
            IN  (c # ORPHANS /\ is_path(nodes[c])) => i < ChildIndex(nodes, ROOT, ORPHANS)

\* the path nodes that the step creates
CreatedPaths == {n \in (Len(nodes) + 1)..Len(nodes') : is_path(nodes'[n])}

\* C20: a path node that a step creates is a file when it is the last part
\* of the path that created it (the new symbol is its child) and a directory
\* otherwise, and no step changes the kind of a path node that exists
C20_KindFixedAtCreation ==
    [][/\ \A n \in CreatedPaths :
              is_file(nodes'[n]) <=> (\E c \in 1..Len(nodes') :
                                          is_symbol(nodes'[c]) /\ nodes'[c].parent = n)
       /\ \A n \in 1..Len(nodes) :
              is_path(nodes[n]) => nodes'[n].is_dir = nodes[n].is_dir]_vars

\* what holds instead: the kind of a new path node is as C20 says, and the
\* only change of kind is that of a directory that becomes a file when a
\* symbol is added whose file is the path of that directory
C20_KindChangedOnlyByAdd ==
    [][/\ \A n \in CreatedPaths :
              is_file(nodes'[n]) <=> (\E c \in 1..Len(nodes') :
                                          is_symbol(nodes'[c]) /\ nodes'[c].parent = n)
       /\ \A n \in 1..Len(nodes) :
              (is_path(nodes[n]) /\ nodes'[n].is_dir # nodes[n].is_dir) =>
                  /\ lastOp'.op = "add"
                  /\ is_dir(nodes[n])
                  /\ nodes'[Len(nodes')].parent = n
                  /\ is_symbol(nodes'[Len(nodes')])]_vars

\* C21: the path node at which the file of an added symbol ends is a file
\* from then on: no add (also one that gives it path children), merge_paths,
\* sort or accumulate_sizes turns a file into a directory
C21_FileStaysFile ==
    [][/\ \A n \in 1..Len(nodes) : is_file(nodes[n]) => is_file(nodes'[n])
       /\ (symbols' # symbols /\ err' = "") =>
              LET leaf == Len(nodes')
              IN  /\ is_symbol(nodes'[leaf])
                  /\ is_path(nodes'[nodes'[leaf].parent]) => is_file(nodes'[nodes'[leaf].parent])]_vars

\* a file that has a symbol and, from a later add, a path child, and that
\* went through two passes
C21_Witness ==
    /\ passes = 2 /\ err = ""
    /\ lastOp.op \in {"merge_paths", "sort", "accumulate_sizes"}
    /\ Len(symbols) = 2 /\ symbols[1].file = F_xy
    /\ \E n \in Reachable(nodes) :
          /\ is_file(nodes[n]) /\ n # ORPHANS
          /\ \E i, j \in 1..Len(nodes[n].children) :
                /\ i < j
                /\ is_symbol(nodes[nodes[n].children[i]])
                /\ is_path(nodes[nodes[n].children[j]])

\* tree t as it is before any accumulation: no node has a cumulative size
Fresh(t) == [n \in 1..Len(t) |-> [t[n] EXCEPT !.cumulative_size = NoneSize]]

\* the cumulative sizes of the nodes reachable from the root
ReachableSizes(t) == [n \in Reachable(t) |-> t[n].cumulative_size]

\* C22: accumulate_sizes(reset=True) completes and gives every node the
\* cumulative size that one call on the tree without any cumulative size
\* gives it, whatever passes of accumulate_sizes, with reset or without,
\* were made before
C22_ResetForgetsHistory ==
    [][(IsStep("accumulate_sizes") /\ lastOp'.flag) =>
           /\ err' = ""
           /\ ReachableSizes(nodes') = ReachableSizes(AccumulateSizes(Fresh(nodes), TRUE)[1])]_vars

\* the third accumulate_sizes in a row, with reset, on a tree with a symbol
\* in a file and an orphan
C22_Witness ==
    /\ lastOp.op = "accumulate_sizes" /\ lastOp.flag /\ lastOp.again
    /\ passes = 3 /\ err = ""
    /\ nodes[ORPHANS].cumulative_size = 5
    /\ nodes[ROOT].cumulative_size = 15

\* C23: when generate_printable_lines trims and returns, every field string
\* that was longer than the width w of its column is its first w - 3
\* characters followed by '...', and no trimmed field string is longer than
\* the width of its column
C23_TrimFits ==
    (out.kind = "lines" /\ err = "" /\ out.print_args.trim) =>
        LET trimmed == TrimStrings(RenderedFields, out.field_sizes)
        IN  \A k \in 1..Len(trimmed) : \A i \in 1..3 :
                /\ Len(trimmed[k][i]) <= out.field_sizes[i]
                /\ Len(RenderedFields[k][i]) > out.field_sizes[i] =>
                       trimmed[k][i] = Slice(RenderedFields[k][i], 0, out.field_sizes[i] - 3)
                                           \o <<".", ".", ".">>

\* the same for the columns that are at least three characters wide
C23_TrimFitsFromThree ==
    (out.kind = "lines" /\ err = "" /\ out.print_args.trim) =>
        LET trimmed == TrimStrings(RenderedFields, out.field_sizes)
        IN  \A k \in 1..Len(trimmed) : \A i \in 1..3 :
                out.field_sizes[i] >= 3 =>
                    /\ Len(trimmed[k][i]) <= out.field_sizes[i]
                    /\ Len(RenderedFields[k][i]) > out.field_sizes[i] =>
                           trimmed[k][i] = Slice(RenderedFields[k][i], 0, out.field_sizes[i] - 3)
                                               \o <<".", ".", ".">>

\* the number of symbol lines among the first k lines
SymbolLinesUpTo(lines, k) ==
    Cardinality({j \in 1..k : lines[j].node # NoNode /\ is_symbol(nodes[lines[j].node])})

ChildrenOf(t, S) ==
    UNION {{t[n].children[i] : i \in 1..Len(t[n].children)} : n \in S}

RECURSIVE Below(_, _)
\* the nodes of set S and all the nodes in the child lists below them
Below(t, S) ==
    IF ChildrenOf(t, S) \subseteq S THEN S ELSE Below(t, S \cup ChildrenOf(t, S))

RECURSIVE DepthBelow(_, _, _)
\* the number of parent pointers from node m up to node n
DepthBelow(t, n, m) == IF m = n THEN 0 ELSE 1 + DepthBelow(t, n, t[m].parent)

\* the place of node m in a sequence of <<node, depth>> pairs
PlaceOf(pairs, m) == CHOOSE i \in 1..Len(pairs) : pairs[i][1] = m

\* the pairs are every node below n, once, with its depth below n, siblings
\* in the order of the child list of their parent
YieldsSubtree(t, n, pairs) ==
    /\ {pairs[i][1] : i \in 1..Len(pairs)} = Below(t, {n})
    /\ Len(pairs) = Cardinality(Below(t, {n}))
    /\ \A i \in 1..Len(pairs) : pairs[i][2] = DepthBelow(t, n, pairs[i][1])
    /\ \A p \in Below(t, {n}) : \A i, j \in 1..Len(t[p].children) :
          i < j => PlaceOf(pairs, t[p].children[i]) < PlaceOf(pairs, t[p].children[j])

\* C25: on the tree of any state, pre_order and post_order from any node of
\* the tree yield every node below it exactly once with its depth, siblings in
\* the order of their parent's child list; pre_order yields a node before
\* the nodes below it and post_order after them
C25_Traversals ==
    \A n \in Below(nodes, {ROOT}) :
        LET pre == PreOrder(nodes, n)
            post == PostOrder(nodes, n)
        IN  /\ YieldsSubtree(nodes, n, pre)
            /\ YieldsSubtree(nodes, n, post)
            /\ \A m \in Below(nodes, {n}) : \A c \in Below(nodes, {m}) \ {m} :
                  /\ PlaceOf(pre, m) < PlaceOf(pre, c)
                  /\ PlaceOf(post, m) > PlaceOf(post, c)

\* accumulate_sizes has walked a tree in which a directory has two children
\* that have nodes below them
C25_Witness ==
    /\ lastOp.op = "accumulate_sizes" /\ err = ""
    /\ Len(PostOrder(nodes, ROOT)) >= 8
    /\ \E n \in Reachable(nodes) :
          /\ n # ROOT /\ Len(nodes[n].children) = 2
          /\ \A i \in 1..2 : nodes[nodes[n].children[i]].children # <<>>

RECURSIVE FishPrefix(_, _, _)
\* the join of the first characters of the names of the chain of links that
\* ends with link n
FishPrefix(t, n, fuel) ==
    IF fuel > 0 /\ t[n].parent # NoNode /\ IsChainLink(t, t[n].parent)
    THEN PathJoin(FishPrefix(t, t[n].parent, fuel - 1), Slice(t[n].data.str, 0, 1))
    ELSE Slice(t[n].data.str, 0, 1)

\* the name of n after the join of the first characters of the links that
\* lead to it
FishChainName(t, n) ==
    IF t[n].parent # NoNode /\ IsChainLink(t, t[n].parent)
    THEN PathJoin(FishPrefix(t, t[n].parent, Len(t)), t[n].data.str)
    ELSE t[n].data.str

\* C26: after merge_paths the name of every path node is the path join of
\* the names of the chain of nodes that was collapsed into it, the names of
\* all but the last cut to their first character when fish_like is set and
\* in full when it is not
C26_FishNames ==
    [][(IsStep("merge_paths") /\ err' = "") =>
           \A n \in Reachable(nodes') :
               is_path(nodes'[n]) =>
                   nodes'[n].data.str = IF lastOp'.flag THEN FishChainName(nodes, n)
                                        ELSE ChainName(nodes, n, Len(nodes))]_vars

\* merge_paths(fish_like=True) has made /x/y/a.c of the chain /, x, yy, a.c
C26_Witness ==
    /\ lastOp.op = "merge_paths" /\ lastOp.flag /\ err = ""
    /\ Len(symbols) = 1 /\ symbols[1].file = F_xyya
    /\ \E n \in Reachable(nodes) : nodes[n].data.str = F_xya /\ nodes[n].parent = ROOT

\* siblings a and b are in the same partition of sort and have equal keys
SameSortKey(t, a, b, key) ==
    IF is_symbol(t[a]) /\ is_symbol(t[b])
    THEN IF key = "name" THEN t[a].data.symbol.name = t[b].data.symbol.name
         ELSE t[a].data.symbol.size = t[b].data.symbol.size
    ELSE /\ is_path(t[a]) /\ is_path(t[b])
         /\ KindRank(t[a]) = KindRank(t[b])
         /\ t[a].cumulative_size = t[b].cumulative_size
         /\ t[a].cumulative_size = NoneSize => t[a].data.str = t[b].data.str

\* the siblings with equal keys are in tree r in the order they have in t
KeepsOrderOfEqual(t, r, key) ==
    \A n \in Reachable(r) : \A i, j \in 1..Len(r[n].children) :
        (i < j /\ SameSortKey(t, r[n].children[i], r[n].children[j], key))
            => ChildIndex(t, n, r[n].children[i]) < ChildIndex(t, n, r[n].children[j])

\* C27: a sort of the tree of any state that completes, by any key and with
\* reverse or without, leaves the path siblings of equal cumulative size and
\* the symbol siblings of equal key in the order they had, and the same sort
\* of its result changes nothing
C27_SortStable ==
    err = "" =>
        \A key \in SymbolKeys, reverse \in BOOLEAN :
            LET r == SortTree(nodes, key, reverse)
            IN  r[2] = "" =>
                    /\ KeepsOrderOfEqual(nodes, r[1], key)
                    /\ SortTree(r[1], key, reverse) = r

\* a sort after accumulate_sizes: the files b.c and a.c, both of size 20,
\* are in the order they were added in, and so are the two symbols of size
\* 5 of a.c after the symbol of size 10
C27_Witness ==
    /\ lastOp.op = "sort" /\ err = "" /\ passes = 2
    /\ symbols = SortSymbols
    /\ \E y, f \in Reachable(nodes) :
          /\ Len(nodes[y].children) = 2
          /\ nodes[nodes[y].children[1]].data.str = <<"b", ".", "c">>
          /\ nodes[y].children[2] = f
          /\ nodes[nodes[y].children[1]].cumulative_size = nodes[f].cumulative_size
          /\ [i \in 1..3 |-> nodes[nodes[f].children[i]].data.symbol.name] = <<S_a, S_c, S_a>>
          /\ [i \in 1..3 |-> nodes[nodes[f].children[i]].data.symbol.size] = <<10, 5, 5>>

\* on tree t, accumulate_sizes() then merge_paths gives every path node that
\* is left the cumulative size that merge_paths then accumulate_sizes()
\* gives it, and both orders complete
MergeCommutesWithAccumulate(t, fish_like) ==
    LET a == AccumulateSizes(t, TRUE)
        am == MergePaths(a[1], fish_like)
        m == MergePaths(t, fish_like)
        ma == AccumulateSizes(m[1], TRUE)
    IN  /\ a[2] = "" /\ am[2] = "" /\ m[2] = "" /\ ma[2] = ""
        /\ Reachable(am[1]) = Reachable(ma[1])
        /\ \A n \in Reachable(am[1]) :
              is_path(am[1][n]) => am[1][n].cumulative_size = ma[1][n].cumulative_size

\* C28: merge_paths changes the cumulative size of no node, and on every
\* tree built by add alone accumulate_sizes() followed by merge_paths gives
\* the path nodes that are left the cumulative sizes that merge_paths
\* followed by accumulate_sizes() gives them
C28_MergeAccumulateCommute ==
    [][/\ IsStep("merge_paths") =>
              \A n \in 1..Len(nodes) : nodes'[n].cumulative_size = nodes[n].cumulative_size
       /\ (passes = 0 /\ err = "") =>
              \A fish_like \in BOOLEAN : MergeCommutesWithAccumulate(nodes, fish_like)]_vars

\* merge_paths after accumulate_sizes(): the node of the collapsed chain has
\* the size of its symbol, next to an orphan
C28_Witness ==
    /\ lastOp.op = "merge_paths" /\ err = "" /\ passes = 2
    /\ nodes[ORPHANS].cumulative_size = 5
    /\ \E n \in Reachable(nodes) :
          /\ is_path(nodes[n]) /\ Len(nodes[n].data.str) > 4
          /\ nodes[n].cumulative_size = 10
          /\ nodes[n].parent = ROOT

\* C29: every symbol node of a symbol that has a file, whatever the file is,
\* is the child of a path node that is a file and never of the root, and
\* the root stays the node without data, parent and directory mark
C29_SymbolsUnderFiles ==
    /\ \A n \in Reachable(nodes) :
          (is_symbol(nodes[n]) /\ nodes[n].data.symbol.file # NoneFile) =>
              /\ nodes[n].parent # ROOT
              /\ is_file(nodes[nodes[n].parent])
    /\ is_root(nodes[ROOT]) /\ ~nodes[ROOT].is_dir /\ nodes[ROOT].parent = NoNode

\* the same for the symbols whose file has at least one path component
C29_SymbolsWithPartsUnderFiles ==
    /\ \A n \in Reachable(nodes) :
          (/\ is_symbol(nodes[n])
           /\ nodes[n].data.symbol.file # NoneFile
           /\ PathParts(nodes[n].data.symbol.file) # <<>>) =>
              /\ nodes[n].parent # ROOT
              /\ is_file(nodes[nodes[n].parent])
    /\ is_root(nodes[ROOT]) /\ ~nodes[ROOT].is_dir /\ nodes[ROOT].parent = NoNode

\* every file but the orphans bucket has a symbol among its children, and
\* only symbols and the orphans bucket have no children
FilesHoldSymbols(t) ==
    \A n \in Reachable(t) :
        /\ (is_file(t[n]) /\ n # ORPHANS) =>
               \E i \in 1..Len(t[n].children) : is_symbol(t[t[n].children[i]])
        /\ t[n].children = <<>> => (is_symbol(t[n]) \/ n = ORPHANS)

\* the step takes only directories out of the tree and leaves every symbol
\* with its parent
SplicesOutDirsOnly ==
    /\ \A n \in Reachable(nodes) \ Reachable(nodes') : is_dir(nodes[n])
    /\ \A n \in 1..Len(nodes) : is_symbol(nodes[n]) => nodes'[n].parent = nodes[n].parent

\* C30: in every state every file but the orphans bucket has a symbol child
\* and every node without children is a symbol or the orphans bucket, and
\* every merge_paths takes only directories out of the tree and changes the
\* parent of no symbol
C30_MergeSplicesDirsOnly ==
    /\ []FilesHoldSymbols(nodes)
    /\ [][IsStep("merge_paths") => SplicesOutDirsOnly]_vars

\* ------------------------------------------------------------------------
\* Properties of main()
\* ------------------------------------------------------------------------
RECURSIVE Outline(_, _, _)
\* the children of n in their order: name, kind, size and their own outline
Outline(t, n, fuel) ==
    IF fuel = 0 THEN <<>>
    ELSE [i \in 1..Len(t[n].children) |->
             LET c == t[n].children[i]
             IN  [name |-> get_key(t[c]),
                  kind |-> IF is_symbol(t[c]) THEN "symbol"
                           ELSE IF is_dir(t[c]) THEN "dir" ELSE "file",
                  size |-> IF is_symbol(t[c]) THEN t[c].data.symbol.size
                           ELSE t[c].cumulative_size,
                  children |-> Outline(t, c, fuel - 1)]]

Item(name, kind, size, children) ==
    [name |-> name, kind |-> kind, size |-> size, children |-> children]

\* the view of the symbols a, b, c with the default merge, the accumulation
\* and the sort by size, once the sort has run
ScenarioSorted ==
    /\ symbols = <<SymA, SymB, SymC>>
    /\ ~args.no_merge_paths /\ ~args.fish_paths
    /\ ~args.no_cumulative_size /\ ~args.sort_by_name
    /\ InSeq(log, "sort") /\ pc # "crashed"

ScenarioTotal == InSeq(log, "calculate_total_size") => total_size = 35

\* C8 (Scenario), as the code has it: for the symbols a (10, /x/y/a.c),
\* b (20, /x/y/b.c), c (5, /x/z.c), build, merge_paths, accumulate_sizes and
\* sort by size descending give a top-level directory /x of size 35 that
\* holds the directory y of size 30 (file b.c of size 20 with symbol b, then
\* file a.c of size 10 with symbol a) and then the file z.c of size 5 with
\* symbol c; calculate_total_size gives 35.
C8_Scenario ==
    ScenarioSorted =>
        /\ \E i \in 1..Len(nodes[ROOT].children) :
              Outline(nodes, ROOT, Len(nodes))[i] =
                  Item(<<"/", "x">>, "dir", 35,
                       <<Item(<<"y">>, "dir", 30,
                              <<Item(<<"b", ".", "c">>, "file", 20, <<Item(S_b, "symbol", 20, <<>>)>>),
                                Item(<<"a", ".", "c">>, "file", 10, <<Item(S_a, "symbol", 10, <<>>)>>)>>),
                         Item(<<"z", ".", "c">>, "file", 5, <<Item(S_c, "symbol", 5, <<>>)>>)>>)
        /\ ScenarioTotal

\* the scenario with its total computed and its tree rendered
C8_Witness ==
    /\ ScenarioSorted
    /\ pc = "done"
    /\ total_size = 35
    /\ out.kind = "protolines" /\ Len(out.protolines) = 8

\* C8 as the specification words it: /x holds a directory named /x/y whose
\* children are the symbols b and a, and a file named /x/z.c.
C8_ScenarioAsWorded ==
    ScenarioSorted =>
        /\ \E i \in 1..Len(nodes[ROOT].children) :
              Outline(nodes, ROOT, Len(nodes))[i] =
                  Item(<<"/", "x">>, "dir", 35,
                       <<Item(F_xy, "dir", 30,
                              <<Item(S_b, "symbol", 20, <<>>), Item(S_a, "symbol", 10, <<>>)>>),
                         Item(F_xz, "file", 5, <<Item(S_c, "symbol", 5, <<>>)>>)>>)
        /\ ScenarioTotal

\* the passes in log follow one another as in order, none of them twice
InOrder(order) ==
    \A i, j \in 1..Len(log) :
        i < j => \E k, l \in 1..Len(order) : k < l /\ order[k] = log[i] /\ order[l] = log[j]

\* at the end of a view every pass that is not switched off has run and the
\* tree was rendered, once
ViewComplete ==
    (pc = "done" \/ (pc = "filter" /\ log # <<>>)) =>
        /\ log[Len(log)] = "render"
        /\ Cardinality({i \in 1..Len(log) : log[i] = "render"}) = 1
        /\ InSeq(log, "build") /\ InSeq(log, "sort")
        /\ InSeq(log, "merge_paths") <=> ~args.no_merge_paths
        /\ InSeq(log, "accumulate_sizes") <=> ~args.no_cumulative_size
        /\ InSeq(log, "calculate_total_size") <=> ~args.no_totals

\* one statement of main at a time, and none after an exception or an exit
OnePassAtATime ==
    /\ pc \in {"main", "filter", "done", "exit", "crashed", "api"} \cup
             {PassOrder[i] : i \in 1..Len(PassOrder)}
    /\ pc = "crashed" <=> err # ""
    /\ pc \in {"merge_paths", "accumulate_sizes", "sort", "calculate_total_size", "render"}
          => log # <<>> /\ log[Len(log)] # pc

\* C10, as the code has it: for each requested view the tree goes through
\* build, merge_paths, accumulate_sizes, sort, calculate_total_size in this
\* order (merge_paths, accumulate_sizes and calculate_total_size only when
\* not switched off) and is then rendered exactly once; a pass is complete
\* before the next begins, and accumulate_sizes runs before sort.
C10_PassOrder ==
    /\ InOrder(<<"build", "merge_paths", "accumulate_sizes", "sort",
                 "calculate_total_size", "render">>)
    /\ ViewComplete
    /\ OnePassAtATime

\* the second of two views, rendered after all five passes
C10_Witness ==
    /\ pc = "done"
    /\ args.rom /\ args.ram
    /\ log = <<"build", "merge_paths", "accumulate_sizes", "sort",
               "calculate_total_size", "render">>
    /\ Len(symbols) = 2

\* C10 as the specification words it: sort runs before accumulate_sizes.
C10_SortBeforeAccumulate ==
    /\ InOrder(<<"build", "merge_paths", "sort", "accumulate_sizes",
                 "calculate_total_size", "render">>)
    /\ ViewComplete
    /\ OnePassAtATime

RECURSIVE CountEntries(_)
\* the entries of a mapping, those of the nested mappings included
CountEntries(d) ==
    IF d = <<>> THEN 0
    ELSE 1 + (IF Head(d).has_children THEN CountEntries(Head(d).children) ELSE 0)
           + CountEntries(Tail(d))

RECURSIVE EntriesAt(_, _)
\* <<label, depth>> of every entry of a mapping whose top level is at depth
EntriesAt(d, depth) ==
    IF d = <<>> THEN {}
    ELSE {<<Head(d).key, depth>>}
             \cup (IF Head(d).has_children THEN EntriesAt(Head(d).children, depth + 1) ELSE {})
             \cup EntriesAt(Tail(d), depth)

\* a row below the top level comes after a row of the level above it, with
\* no row of a level above that one in between
ParentRowFirst(rows, k) ==
    rows[k].padding > 0 =>
        \E j \in 1..(k - 1) :
            /\ rows[j].padding = rows[k].padding - 10
            /\ \A i \in (j + 1)..(k - 1) : rows[i].padding >= rows[k].padding

\* C16: print_html, whenever _generate_node_dict hands it a mapping, emits
\* one row per entry, a parent before its children, padded by 10px a level,
\* and an overall size that is the sum of the cumulative sizes of the
\* top-level entries, whether accumulate_sizes was run on the tree or not
C16_HtmlRows ==
    out.kind = "html" =>
        /\ err = ""
        /\ Len(out.rows) = CountEntries(out.node_dict)
        /\ {<<out.rows[k].label, out.rows[k].padding>> : k \in 1..Len(out.rows)}
               = {<<HtmlEscape(e[1]), 10 * e[2]>> : e \in EntriesAt(out.node_dict, 0)}
        /\ \A k \in 1..Len(out.rows) : ParentRowFirst(out.rows, k)
        /\ out.overall_size
               = SumSeq([i \in 1..Len(out.node_dict) |-> out.node_dict[i].cumulative_size])

\* the same for the trees on which accumulate_sizes was run
C16_HtmlRowsAccumulated ==
    (out.kind = "html" /\ ~args.no_cumulative_size) => C16_HtmlRows

====
